---- MODULE Spec2Model ----
(***************************************************************************)
(* State-machine model of the call-audio tap pipeline of asr-poc:          *)
(*   - the framed gateway        (src/server/mti-gw.js, lines 281-601)     *)
(*   - the tap orchestrator      (src/server/tap-service.js)               *)
(*   - the streaming gateway     (src/server/deepgram-gw.js, 268-1049)     *)
(* Each component is a Node.js process: every handler runs to completion,  *)
(* so one action is one handler (or one segment of an async function       *)
(* between two awaits).  Sockets, timers and the PBX are the environment.  *)
(***************************************************************************)
EXTENDS Integers, Sequences, FiniteSets, TLC

(***************************************************************************)
(* Bounds of the model (not program constants).                            *)
(***************************************************************************)
MaxFgwSessions == 2      \* session objects the framed gateway creates
MaxDatagrams   == 2      \* RTP payloads the framed gateway receives
MaxTicks       == 2      \* clock steps taken
MaxStarts      == 2      \* snoop StasisStart events the orchestrator handles
MaxRtpPorts    == 2      \* size of the RTP port range of the orchestrator
MaxNotFound    == 1      \* "not found" answers of the PBX to addChannel
MaxCalls       == 1      \* calls tapped by the orchestrator
MaxSgwSessions == 2      \* session objects the streaming gateway creates
MaxSgwLive     == 2      \* largest session cap of the streaming gateway
MaxSgwDrops    == 1      \* packets the streaming gateway refuses at the cap
MaxSgwPackets  == 2      \* RTP payloads the streaming gateway receives
MaxSgwRegs     == 2      \* /register requests at the streaming gateway
MaxRegRegs     == 3      \* /register requests in the runs of the registration
MaxSgwWs       == 2      \* upstream sockets the streaming gateway opens
MaxRcWs        == 6      \* upstream sockets in the runs of the reconnect loop
MaxSgwTicks    == 5      \* clock steps of the streaming gateway

(***************************************************************************)
(* Program constants.                                                      *)
(***************************************************************************)
AUDIO_FRAME_SIZE == 640
INACTIVITY_MS    == 8000

\* The clock of the framed gateway advances in steps of the inactivity
\* threshold: a gap is 0, exactly the threshold, or above it.
TickMs == INACTIVITY_MS

FRAME_START == 1     \* 0x01
FRAME_AUDIO == 18    \* 0x12
FRAME_END   == 0     \* 0x00

(***************************************************************************)
(* Inputs.                                                                 *)
(***************************************************************************)
NoPort   == 0                      \* Number(undefined) / port=0 : falsy
Ports    == {41000, 41001}
Uuids    == {"A1", "B2"}
NoUuid   == ""
FgwUuids == {"A1"}                 \* uuid values of /register at the framed gateway
Metas    == { [agentExtension |-> "100", agentUsername |-> "", agentId |-> ""] }

\* UDP datagrams: total length and the header fields rtpPayload reads.
Datagrams ==
  { [len |-> 8,    cc |-> 0, x |-> FALSE, extLen |-> 0],   \* shorter than a header
    [len |-> 16,   cc |-> 1, x |-> FALSE, extLen |-> 0],   \* header only
    [len |-> 340,  cc |-> 0, x |-> TRUE,  extLen |-> 1],   \* 320 payload bytes
    [len |-> 1316, cc |-> 1, x |-> FALSE, extLen |-> 0] }  \* 1300 payload bytes

(***************************************************************************)
(* Buffers.  A byte of RTP payload is identified by its arrival index in   *)
(* the session's payload stream; a buffer is the sequence of its bytes,    *)
(* stored as maximal runs [src, from, to] of consecutive bytes of one      *)
(* source (src is "rtp" or, for a text buffer, the text itself).           *)
(***************************************************************************)
RECURSIVE BufLen(_)
BufLen(b) ==
  IF b = <<>> THEN 0 ELSE (Head(b).to - Head(b).from + 1) + BufLen(Tail(b))

\* Buffer.concat([a, b])
BufConcat(a, b) ==
  IF a = <<>> THEN b
  ELSE IF b = <<>> THEN a
  ELSE LET la == a[Len(a)]
           hb == Head(b)
       IN IF la.src = hb.src /\ la.to + 1 = hb.from
          THEN SubSeq(a, 1, Len(a) - 1)
                 \o <<[src |-> la.src, from |-> la.from, to |-> hb.to]>>
                 \o Tail(b)
          ELSE a \o b

\* first n bytes of b
RECURSIVE BufTake(_, _)
BufTake(b, n) ==
  IF n <= 0 \/ b = <<>> THEN <<>>
  ELSE LET h == Head(b)
           l == h.to - h.from + 1
       IN IF l <= n
          THEN <<h>> \o BufTake(Tail(b), n - l)
          ELSE <<[src |-> h.src, from |-> h.from, to |-> h.from + n - 1]>>

\* b without its first n bytes
RECURSIVE BufDrop(_, _)
BufDrop(b, n) ==
  IF n <= 0 \/ b = <<>> THEN b
  ELSE LET h == Head(b)
           l == h.to - h.from + 1
       IN IF l <= n
          THEN BufDrop(Tail(b), n - l)
          ELSE <<[src |-> h.src, from |-> h.from + n, to |-> h.to]>> \o Tail(b)

\* buf.subarray(start, end) and buf.subarray(start)
BufSubarray(b, start, end) == BufTake(BufDrop(b, start), end - start)
BufSubarrayFrom(b, start)  == BufDrop(b, start)

\* Buffer.from(text, 'utf8') for ASCII text
BufFromText(t) ==
  IF Len(t) = 0 THEN <<>> ELSE <<[src |-> t, from |-> 1, to |-> Len(t)]>>

(***************************************************************************)
(* Framed gateway: pure functions.                                         *)
(***************************************************************************)
\* rtpPayload(buf): the offset of the payload in the datagram, or -1 (null).
rtpPayloadOffset(d) ==
  IF d.len < 12 THEN -1
  ELSE LET off0 == 12 + d.cc * 4
       IN IF d.x
          THEN IF d.len < off0 + 4 THEN -1
               ELSE LET off1 == off0 + 4 + d.extLen * 4
                    IN IF d.len <= off1 THEN -1 ELSE off1
          ELSE IF d.len <= off0 THEN -1 ELSE off0

\* number of payload bytes of the datagram (0 when rtpPayload returns null)
rtpPayloadLen(d) ==
  IF rtpPayloadOffset(d) < 0 THEN 0 ELSE d.len - rtpPayloadOffset(d)

buildFrame(type, payloadBuf) ==
  [type |-> type, len |-> BufLen(payloadBuf), payload |-> payloadBuf]

\* JSON.stringify(startPayloadObj)
startPayloadJson(uuid, meta) ==
  "{\"call_uuid\":\"" \o uuid
    \o "\",\"agent_extension\":\"" \o meta.agentExtension
    \o "\",\"agent_username\":\""  \o meta.agentUsername
    \o "\",\"agent_id\":\""        \o meta.agentId \o "\"}"

StartFrame(uuid, meta) == buildFrame(FRAME_START, BufFromText(startPayloadJson(uuid, meta)))
EndFrame               == buildFrame(FRAME_END, <<>>)

(***************************************************************************)
(* State.                                                                  *)
(***************************************************************************)
VARIABLES
  now,             \* Date.now() (ms), shared clock of the model
  \* ---- framed gateway (mti-gw.js) ----
  fgwSess,         \* the session objects ever created, by creation index
  sessionsByPort,  \* Map port -> session (index in fgwSess, 0 = no entry)
  httpRes,         \* status of the last /register or /unregister response
  fgwDatagrams,    \* number of RTP payloads received so far
  \* ---- tap orchestrator (tap-service.js) ----
  tapSess,         \* the session objects ever created, by creation index
  sessions,        \* Map uuid -> session (index in tapSess, 0 = no entry)
  chan2uuid,       \* Map channelId -> uuid
  usedPorts,       \* Set of allocated RTP ports
  stasisEndSubs,   \* snoop channels with a ch.on('StasisEnd') listener
  tapHandlers,     \* the StasisStart handlers started, each with its position
  tapCleanups,     \* the cleanupSession runs past the latch, each with its position
  pbxBridges,      \* environment: the bridges requested at the PBX
  pbxChans,        \* environment: the snoop and external-media channels of the PBX
  pbxNotFound,     \* environment: "not found" answers given to addChannel
  \* ---- streaming gateway (deepgram-gw.js) ----
  ctxByUuid,       \* Map uuid -> registration context
  pendingByDir,    \* { in: [], out: [] } of { uuid, ts }
  sgwSess,         \* the session objects ever created, by creation index
  rtpSessions,     \* Map SSRC -> session (index in sgwSess, 0 = no entry)
  sgwWs,           \* environment: the upstream sockets opened by dgConnect
  sgwTimers,       \* sessions with a pending reconnect timer
  sgwPkts,         \* number of RTP payloads received so far
  firstBind,       \* history: per SSRC, the binding of its first session
  sgwRegs,         \* number of /register requests so far
  DG_MAX_SESSIONS, \* the session cap read from the environment at start
  sgwDropped,      \* history: packets refused at the session cap
  callStart,       \* history: per CallId, the registers and call-start events
                   \* since its context was created
  genConvs,        \* the conversation objects ever stored in convByUuid, in the
                   \* order of insertion; live: the entry is still in the Map
  genCycles,       \* the runs of runGenAssistantCycle that issued a POST
  fnCall           \* the last call of a helper function: name, arguments, result

fgwVars == <<fgwSess, sessionsByPort, httpRes, fgwDatagrams>>
tapVars == <<tapSess, sessions, chan2uuid, usedPorts, stasisEndSubs,
             tapHandlers, tapCleanups, pbxBridges, pbxChans, pbxNotFound>>
sgwVars == <<ctxByUuid, pendingByDir, sgwSess, rtpSessions, sgwWs, sgwTimers,
             sgwPkts, firstBind, sgwRegs, DG_MAX_SESSIONS, sgwDropped,
             callStart>>
fnVars  == <<fnCall>>
genVars == <<genConvs, genCycles>>
notFgwVars == <<tapVars, sgwVars, fnVars, genVars>>
notTapVars == <<now, fgwVars, sgwVars, fnVars, genVars>>
notSgwVars == <<fgwVars, tapVars, fnVars, genVars>>
notFnVars  == <<now, fgwVars, tapVars, sgwVars, genVars>>
vars    == <<now, fgwVars, tapVars, sgwVars, fnVars, genVars>>

NoSess == 0

\* the object built by createSession, with the state of its two sockets
NewFgwSession(port, uuid, meta) ==
  [ port            |-> port,
    uuid            |-> uuid,
    meta            |-> meta,
    connected       |-> FALSE,
    queue           |-> <<>>,
    audioBuffer     |-> <<>>,
    lastRtpMs       |-> now,
    ended           |-> FALSE,
    inactivityTimer |-> "null",         \* null / running / cleared
    \* environment: the sockets
    tcp             |-> "connecting",   \* connecting / open / errored / closed
    tcpEnded        |-> FALSE,          \* tcpSock.end() was called
    udp             |-> "open",         \* open / closed
    \* history
    writes          |-> <<>>,           \* frames passed to tcpSock.write
    produced        |-> <<>>,           \* AUDIO frames queued or written
    flushed         |-> 0,              \* frames the connect handler took from the queue
    rxBytes         |-> 0,              \* payload bytes received
    rxLive          |-> 0,              \* ... of which before ended was set
    timeouts        |-> 0 ]             \* breaches found by the inactivity timer

FgwInit ==
  /\ fgwSess = <<>>
  /\ sessionsByPort = [p \in Ports |-> NoSess]
  /\ httpRes = 0
  /\ fgwDatagrams = 0

TapInit ==
  /\ tapSess = <<>>
  /\ sessions = [u \in Uuids |-> NoSess]
  /\ chan2uuid = <<>>
  /\ usedPorts = {}
  /\ stasisEndSubs = {}
  /\ tapHandlers = <<>>
  /\ tapCleanups = <<>>
  /\ pbxBridges = <<>>
  /\ pbxChans = <<>>
  /\ pbxNotFound = 0

SgwInit ==
  /\ ctxByUuid = [u \in Uuids |-> [has |-> FALSE, exten |-> "", caller |-> "",
                                    callername |-> ""]]
  /\ pendingByDir = [d \in {"in", "out"} |-> <<>>]
  /\ sgwSess = <<>>
  /\ rtpSessions = [s \in {7, 9} |-> NoSess]
  /\ sgwWs = <<>>
  /\ sgwTimers = {}
  /\ sgwPkts = 0
  /\ firstBind = [s \in {7, 9} |-> [bound |-> FALSE, uuid |-> "", dir |-> "", room |-> ""]]
  /\ sgwRegs = 0
  /\ DG_MAX_SESSIONS \in 1..MaxSgwLive
  /\ sgwDropped = 0
  /\ callStart = [u \in Uuids |-> [regs |-> 0, forced |-> 0, n |-> 0, room |-> ""]]

FnInit == fnCall = [fn |-> "none"]

GenInit ==
  /\ genConvs = <<>>
  /\ genCycles = <<>>

Init ==
  /\ now = 0
  /\ FgwInit
  /\ TapInit
  /\ SgwInit
  /\ FnInit
  /\ GenInit

\* the initial states with the largest session cap, for the runs that do not
\* reach the cap
InitOther == Init /\ DG_MAX_SESSIONS = MaxSgwLive

(***************************************************************************)
(* Framed gateway: operations on the session objects S and the table T.    *)
(***************************************************************************)
sendEndAndClose(S, i) ==
  IF S[i].ended THEN S
  ELSE [S EXCEPT ![i].ended    = TRUE,
                 ![i].writes   = IF S[i].connected THEN Append(@, EndFrame) ELSE @,
                 ![i].tcpEnded = TRUE]

\* cleanupSession(port, why) of mti-gw.js
fgwCleanupSession(S, T, port) ==
  LET i == T[port] IN
  IF i = NoSess THEN [S |-> S, T |-> T]
  ELSE LET S1 == [S EXCEPT ![i].inactivityTimer =
                               IF @ = "running" THEN "cleared" ELSE @,
                           ![i].udp = "closed"]
           S2 == IF ~S1[i].ended THEN sendEndAndClose(S1, i) ELSE S1
       IN [S |-> S2, T |-> [T EXCEPT ![port] = NoSess]]

\* createSession without the "port already registered" check
createSessionNoCheck(S, T, port, uuid, meta) ==
  [threw |-> FALSE,
   S |-> Append(S, NewFgwSession(port, uuid, meta)),
   T |-> [T EXCEPT ![port] = Len(S) + 1]]

createSession(S, T, port, uuid, meta) ==
  IF T[port] # NoSess
  THEN [threw |-> TRUE, S |-> S, T |-> T]
  ELSE [threw |-> FALSE,
        S |-> Append(S, NewFgwSession(port, uuid, meta)),
        T |-> [T EXCEPT ![port] = Len(S) + 1]]

\* the drain loop with "> AUDIO_FRAME_SIZE" as its condition
RECURSIVE drainAudioStrict(_)
drainAudioStrict(s) ==
  IF BufLen(s.audioBuffer) > AUDIO_FRAME_SIZE
  THEN LET chunk == BufSubarray(s.audioBuffer, 0, AUDIO_FRAME_SIZE)
           s1    == [s EXCEPT !.audioBuffer = BufSubarrayFrom(@, AUDIO_FRAME_SIZE)]
           frame == buildFrame(FRAME_AUDIO, chunk)
       IN IF s1.ended THEN s1
          ELSE IF s1.connected
               THEN drainAudioStrict([s1 EXCEPT !.writes   = Append(@, frame),
                                                !.produced = Append(@, frame)])
               ELSE drainAudioStrict([s1 EXCEPT !.queue    = Append(@, frame),
                                                !.produced = Append(@, frame)])
  ELSE s

\* the drain loop of udpSock.on('message'), applied to one session object
RECURSIVE drainAudio(_)
drainAudio(s) ==
  IF BufLen(s.audioBuffer) >= AUDIO_FRAME_SIZE
  THEN LET chunk == BufSubarray(s.audioBuffer, 0, AUDIO_FRAME_SIZE)
           s1    == [s EXCEPT !.audioBuffer = BufSubarrayFrom(@, AUDIO_FRAME_SIZE)]
           frame == buildFrame(FRAME_AUDIO, chunk)
       IN IF s1.ended THEN s1
          ELSE IF s1.connected
               THEN drainAudio([s1 EXCEPT !.writes   = Append(@, frame),
                                          !.produced = Append(@, frame)])
               ELSE drainAudio([s1 EXCEPT !.queue    = Append(@, frame),
                                          !.produced = Append(@, frame)])
  ELSE s

\* udpSock.on('message') applied to one session object
onUdpMessage(s, d) ==
  LET n == rtpPayloadLen(d)
  IN IF d.len < 12 \/ rtpPayloadOffset(d) < 0 THEN s
     ELSE LET payload == <<[src |-> "rtp", from |-> s.rxBytes + 1, to |-> s.rxBytes + n]>>
          IN drainAudio([s EXCEPT !.lastRtpMs   = now,
                                   !.rxBytes     = @ + n,
                                   !.rxLive      = IF s.ended THEN @ ELSE @ + n,
                                   !.audioBuffer = BufConcat(@, payload)])

\* the connect handler flushing the queue before it writes START
onTcpConnectFlushFirst(s) ==
  [s EXCEPT !.tcp             = "open",
            !.writes          = (@ \o s.queue) \o <<StartFrame(s.uuid, s.meta)>>,
            !.connected       = TRUE,
            !.queue           = <<>>,
            !.flushed         = Len(s.queue),
            !.inactivityTimer = IF @ = "null" THEN "running" ELSE @]

\* tcpSock.on('connect') applied to one session object
onTcpConnect(s) ==
  [s EXCEPT !.tcp             = "open",
            !.writes          = Append(@, StartFrame(s.uuid, s.meta)) \o s.queue,
            !.connected       = TRUE,
            !.queue           = <<>>,
            !.flushed         = Len(s.queue),
            !.inactivityTimer = IF @ = "null" THEN "running" ELSE @]

(***************************************************************************)
(* Framed gateway: actions (one per handler).                              *)
(***************************************************************************)
HttpRegister(port, uuid, meta) ==
  /\ IF uuid = NoUuid \/ port = NoPort
     THEN /\ httpRes' = 400
          /\ UNCHANGED <<fgwSess, sessionsByPort>>
     ELSE LET r == createSession(fgwSess, sessionsByPort, port, uuid, meta)
          IN /\ Len(r.S) <= MaxFgwSessions
             /\ fgwSess' = r.S
             /\ sessionsByPort' = r.T
             /\ httpRes' = IF r.threw THEN 409 ELSE 200
  /\ UNCHANGED <<now, fgwDatagrams>>
  /\ UNCHANGED notFgwVars

HttpUnregister(port) ==
  /\ IF port = NoPort
     THEN /\ httpRes' = 400
          /\ UNCHANGED <<fgwSess, sessionsByPort>>
     ELSE LET r == fgwCleanupSession(fgwSess, sessionsByPort, port)
          IN /\ fgwSess' = r.S
             /\ sessionsByPort' = r.T
             /\ httpRes' = 200
  /\ UNCHANGED <<now, fgwDatagrams>>
  /\ UNCHANGED notFgwVars

TcpConnect(i) ==
  /\ fgwSess[i].tcp = "connecting"
  /\ fgwSess' = [fgwSess EXCEPT ![i] = onTcpConnect(@)]
  /\ UNCHANGED <<sessionsByPort, httpRes, fgwDatagrams, now>>
  /\ UNCHANGED notFgwVars

TcpError(i) ==
  /\ fgwSess[i].tcp \in {"connecting", "open"}
  /\ fgwSess' = [sendEndAndClose(fgwSess, i) EXCEPT ![i].tcp = "errored"]
  /\ UNCHANGED <<sessionsByPort, httpRes, fgwDatagrams, now>>
  /\ UNCHANGED notFgwVars

\* 'close' of the TCP socket: after an error, after the peer closed, or
\* after our own end() was answered
TcpClose(i) ==
  /\ fgwSess[i].tcp \in {"open", "errored"}
  /\ LET r == fgwCleanupSession(fgwSess, sessionsByPort, fgwSess[i].port)
     IN /\ fgwSess' = [r.S EXCEPT ![i].tcp = "closed"]
        /\ sessionsByPort' = r.T
  /\ UNCHANGED <<httpRes, fgwDatagrams, now>>
  /\ UNCHANGED notFgwVars

UdpMessage(i, d) ==
  /\ fgwSess[i].udp = "open"
  /\ fgwDatagrams < MaxDatagrams
  /\ fgwSess' = [fgwSess EXCEPT ![i] = onUdpMessage(@, d)]
  /\ fgwDatagrams' = IF rtpPayloadLen(d) > 0 THEN fgwDatagrams + 1 ELSE fgwDatagrams
  /\ UNCHANGED <<sessionsByPort, httpRes, now>>
  /\ UNCHANGED notFgwVars

UdpError(i) ==
  /\ fgwSess[i].udp = "open"
  /\ ~fgwSess[i].ended
  /\ fgwSess' = sendEndAndClose(fgwSess, i)
  /\ UNCHANGED <<sessionsByPort, httpRes, fgwDatagrams, now>>
  /\ UNCHANGED notFgwVars

\* the condition of the interval callback with ">=" as its comparison
inactiveAtThreshold(s, t) == ~s.ended /\ t - s.lastRtpMs >= INACTIVITY_MS

\* the condition of the interval callback
inactive(s, t) == ~s.ended /\ t - s.lastRtpMs > INACTIVITY_MS

\* one firing of the interval timer set in the connect handler (a firing
\* that finds no breach changes nothing)
WatchdogTick(i) ==
  /\ fgwSess[i].inactivityTimer = "running"
  /\ inactive(fgwSess[i], now)
  /\ fgwSess' = sendEndAndClose([fgwSess EXCEPT ![i].timeouts = @ + 1], i)
  /\ UNCHANGED <<sessionsByPort, httpRes, fgwDatagrams, now>>
  /\ UNCHANGED notFgwVars

\* The clock is read only by the watchdogs: it advances while one is running
\* for a session that is not ended.
Tick ==
  /\ now + TickMs <= MaxTicks * TickMs
  /\ \E i \in 1..Len(fgwSess) :
       fgwSess[i].inactivityTimer = "running" /\ ~fgwSess[i].ended
  /\ now' = now + TickMs
  /\ UNCHANGED fgwVars
  /\ UNCHANGED notFgwVars

FgwNext ==
  \/ \E port \in Ports \cup {NoPort}, uuid \in FgwUuids \cup {NoUuid}, meta \in Metas :
        HttpRegister(port, uuid, meta)
  \/ \E port \in Ports \cup {NoPort} : HttpUnregister(port)
  \/ \E i \in 1..Len(fgwSess) : TcpConnect(i)
  \/ \E i \in 1..Len(fgwSess) : TcpError(i)
  \/ \E i \in 1..Len(fgwSess) : TcpClose(i)
  \/ \E i \in 1..Len(fgwSess), d \in Datagrams : UdpMessage(i, d)
  \/ \E i \in 1..Len(fgwSess) : UdpError(i)
  \/ \E i \in 1..Len(fgwSess) : WatchdogTick(i)
  \/ Tick

SpecFgw == InitOther /\ [][FgwNext]_vars

(***************************************************************************)
(* Framed gateway: properties.                                             *)
(***************************************************************************)
FgwIds   == 1..Len(fgwSess)
Live(i)  == fgwSess[i].udp = "open"         \* the session holds its UDP port
IsAudio(f) == f.type = FRAME_AUDIO
AudioOf(w) == SelectSeq(w, IsAudio)
NumEnd(w)  == Cardinality({k \in 1..Len(w) : w[k].type = FRAME_END})

\* frames appended to the writes of session i by the current step
NewWrites(i) ==
  {k \in 1..Len(fgwSess'[i].writes) : k > Len(fgwSess[i].writes)}

\* C1: no two live sessions hold the same UDP port and a live session is the
\* one the table has for its port; a /register for a port that has a session
\* is answered 409 and changes no session; /unregister leaves the port
\* without a session, and a /register for a port without one is answered
\* 200 and puts a new session in the table.
C1_PortUniqueness ==
  /\ [](\A i \in FgwIds :
          /\ Live(i) => sessionsByPort[fgwSess[i].port] = i
          /\ \A j \in FgwIds :
               (Live(i) /\ Live(j) /\ fgwSess[i].port = fgwSess[j].port) => i = j)
  /\ [][\A port \in Ports, uuid \in FgwUuids, meta \in Metas :
          HttpRegister(port, uuid, meta) =>
            IF sessionsByPort[port] # NoSess
            THEN httpRes' = 409 /\ UNCHANGED <<fgwSess, sessionsByPort>>
            ELSE /\ httpRes' = 200
                 /\ sessionsByPort'[port] = Len(fgwSess) + 1
                 /\ Len(fgwSess') = Len(fgwSess) + 1
                 /\ fgwSess'[Len(fgwSess) + 1].udp = "open"]_vars
  /\ [][\A port \in Ports :
          HttpUnregister(port) => (httpRes' = 200 /\ sessionsByPort'[port] = NoSess)]_vars

\* C1 witness: a port was unregistered and registered again, and a further
\* /register for it was answered 409 while the second session is live.
C1_Witness ==
  \E i, j \in FgwIds :
    /\ i < j
    /\ fgwSess[i].port = fgwSess[j].port
    /\ ~Live(i)
    /\ Live(j)
    /\ sessionsByPort[fgwSess[j].port] = j
    /\ httpRes = 409

\* C2 (as claimed, for the sessions whose TCP connect completed): a session
\* whose TCP connection has closed got exactly one END frame, as the last
\* frame written.
C2_ExactlyOneEnd ==
  \A i \in FgwIds :
    (fgwSess[i].tcp = "closed" /\ fgwSess[i].connected) =>
      /\ NumEnd(fgwSess[i].writes) = 1
      /\ fgwSess[i].writes[Len(fgwSess[i].writes)] = EndFrame

\* C3: the writes of a session are START (once, first, written by the
\* connect handler), then the AUDIO frames in the order they were produced,
\* the queued ones first, then END if any, as the last frame; the queue is
\* empty from the connect on.
C3_WriteOrder ==
  \A i \in FgwIds :
    LET s == fgwSess[i]
        w == s.writes
    IN /\ (w # <<>>) <=> s.connected
       /\ s.connected => w[1] = StartFrame(s.uuid, s.meta)
       /\ \A k \in 2..Len(w) : w[k].type # FRAME_START
       /\ \A k \in 1..Len(w) : w[k].type = FRAME_END => k = Len(w)
       /\ AudioOf(w) \o s.queue = s.produced
       /\ s.connected =>
            /\ s.queue = <<>>
            /\ SubSeq(w, 2, 1 + s.flushed) = SubSeq(s.produced, 1, s.flushed)

\* C3 witness: START, two frames that had been queued, two frames produced
\* after the connect, END.
C3_Witness ==
  \E i \in FgwIds :
    /\ fgwSess[i].flushed = 2
    /\ Len(fgwSess[i].writes) = 6
    /\ fgwSess[i].writes[6] = EndFrame

\* the frames p carry, in order, the first 640 * Len(p) payload bytes
CarriesStream(p) ==
  \A k \in 1..Len(p) :
    p[k] = [type |-> FRAME_AUDIO, len |-> AUDIO_FRAME_SIZE,
            payload |-> <<[src |-> "rtp",
                           from |-> AUDIO_FRAME_SIZE * (k - 1) + 1,
                           to   |-> AUDIO_FRAME_SIZE * k]>>]

C5_NoAudioAfterEnded ==
  [][\A i \in FgwIds :
       fgwSess[i].ended =>
         \A k \in NewWrites(i) : fgwSess'[i].writes[k].type # FRAME_AUDIO]_vars

(***************************************************************************)
(* Tap orchestrator (tap-service.js, lines 1-869).                         *)
(* A StasisStart handler and a cleanupSession run are async functions:     *)
(* each is a process whose position is the await it is suspended at, and   *)
(* one action is the code that runs from the completion of that await to   *)
(* the next one.  The PBX and the two gateways answer each request with    *)
(* success or failure.                                                     *)
(***************************************************************************)
RTP_START == 41000
RTP_END   == RTP_START + MaxRtpPorts - 1        \* MTI_RTP_END of the deployment
ADD_TRIES == 12                                 \* addToBridgeWithRetry: tries = 12

Dirs     == {"in", "out"}
OrigChan == 0                                   \* the tapped channel (never mapped)
OrigUuid == "A1"                                \* the call of the tapped channel

\* the (uuid, gw, dir) arguments of the snoop channels that enter the application
TapStarts ==
  { [uuid |-> "A1", gw |-> "deepgram", dir |-> "in"],
    [uuid |-> "A1", gw |-> "deepgram", dir |-> "out"],
    [uuid |-> "B2", gw |-> "mti",      dir |-> "both"] }

TapSt ==
  [ S |-> tapSess, T |-> sessions, M |-> chan2uuid, P |-> usedPorts,
    L |-> stasisEndSubs, H |-> tapHandlers, K |-> tapCleanups,
    B |-> pbxBridges, C |-> pbxChans ]

TapSet(st) ==
  /\ tapSess' = st.S
  /\ sessions' = st.T
  /\ chan2uuid' = st.M
  /\ usedPorts' = st.P
  /\ stasisEndSubs' = st.L
  /\ tapHandlers' = st.H
  /\ tapCleanups' = st.K
  /\ pbxBridges' = st.B
  /\ pbxChans' = st.C

\* the session object of handleSnoopMTI / handleSnoopDeepgram
NewTapSession(uuid, gw, ch) ==
  [ uuid           |-> uuid,
    gw             |-> gw,
    bridge         |-> 0,                                \* framed backend
    snoopId        |-> IF gw = "mti" THEN ch ELSE 0,     \* framed backend only
    emIds          |-> <<>>,
    emMeta         |-> <<>>,                             \* Map, in insertion order
    bridges        |-> [d \in Dirs |-> 0],               \* streaming backend
    bridgePromises |-> [d \in Dirs |-> "null"],          \* null / pending / rejected
    cleaned        |-> FALSE,
    \* history
    passes         |-> 0,       \* cleanupSession runs that went past the latch
    recalled       |-> FALSE,   \* cleanupSession was called again after the latch was set
    origHangup     |-> FALSE,   \* a hangup request of the tapped channel came while it was live
    effects        |-> <<>> ]   \* the destructive steps performed on it, in order

NewHandler(s, a, ch) ==
  [ sess |-> s, uuid |-> a.uuid, gw |-> a.gw, dir |-> a.dir, ch |-> ch,
    pc |-> "start", bridge |-> 0, em |-> 0, rtpPort |-> 0, tries |-> 0,
    waited |-> FALSE ]      \* history: it awaited an in-flight bridge creation

NewBridge(s, d) == [ sess |-> s, dir |-> d, state |-> "creating", members |-> {} ]

NewChan(kind, uuid, dir) ==
  [ kind |-> kind, uuid |-> uuid, dir |-> dir ]

mapChan(st, uuid, channelId) == [st EXCEPT !.M = (channelId :> uuid) @@ st.M]

unmapChan(st, channelId) ==
  [st EXCEPT !.M = [c \in (DOMAIN st.M) \ {channelId} |-> st.M[c]]]

findUuidByChannel(st, channelId) ==
  IF channelId \in DOMAIN st.M THEN st.M[channelId] ELSE NoUuid

\* the random draws of one call of allocPort: maxTries values of the range
DrawSeqs == [1..(RTP_END - RTP_START + 1) -> RTP_START..RTP_END]

\* allocPort returning its first draw without the test of usedPorts
allocPortNoTest(used, draws) == [res |-> draws[1], n |-> 1]

\* lines 230-241 with the given draws: the port returned (0 for null) and
\* the number of draws made
allocPortOf(used, draws) ==
  LET free == {i \in 1..Len(draws) : draws[i] \notin used}
  IN IF free = {} THEN [res |-> NoPort, n |-> Len(draws)]
     ELSE LET i == CHOOSE k \in free : \A j \in free : k <= j
          IN [res |-> draws[i], n |-> i]

\* the results allocPort can return: a port that was free, or null (0) when
\* every random draw hit an allocated port
allocPort(used) == {allocPortOf(used, draws).res : draws \in DrawSeqs}

freePort(st, p) == IF p = NoPort THEN st ELSE [st EXCEPT !.P = @ \ {p}]

Effect(st, s, e) == [st EXCEPT !.S[s].effects = Append(@, e)]

(***************************************************************************)
(* cleanupSession, from its last step to its first: each operator runs the *)
(* code from one point of the function to the next await.                  *)
(***************************************************************************)
RECURSIVE unmapAll(_, _)
unmapAll(st, ids) ==
  IF ids = <<>> THEN st ELSE unmapAll(unmapChan(st, Head(ids)), Tail(ids))

\* lines 463-470
cleanupFinish(st, c) ==
  LET k   == st.K[c]
      s   == k.sess
      st1 == IF k.snoopId # 0 THEN unmapChan(st, k.snoopId) ELSE st
      st2 == unmapAll(st1, st1.S[s].emIds)
      st3 == [st2 EXCEPT !.T[k.uuid] = NoSess]
  IN [Effect(st3, s, <<"delete", 0>>) EXCEPT !.K[c].pc = "done"]

\* lines 458-461: for (const emId of emIds) await hangupIfAlive(emId)
cleanupHangEm(st, c, j) ==
  IF j <= Len(st.S[st.K[c].sess].emIds)
  THEN [st EXCEPT !.K[c].pc = "getEm", !.K[c].k = j]
  ELSE cleanupFinish(st, c)

\* line 456: await hangupIfAlive(snoopId)
cleanupHangSnoop(st, c) ==
  IF st.K[c].snoopId # 0
  THEN [st EXCEPT !.K[c].pc = "getSnoop"]
  ELSE cleanupHangEm(st, c, 1)

\* lines 439-442: the bridge read at line 388
cleanupMtiBridge(st, c) ==
  IF st.K[c].bridge # 0
  THEN [Effect(st, st.K[c].sess, <<"destroy", st.K[c].bridge>>)
          EXCEPT !.K[c].pc = "mtiDestroy"]
  ELSE cleanupHangSnoop(st, c)

\* lines 429-437: for (const d of ['in', 'out'])
RECURSIVE cleanupDgBridges(_, _, _)
cleanupDgBridges(st, c, ds) ==
  LET s == st.K[c].sess
  IN IF st.S[s].gw # "deepgram" \/ ds = <<>>
     THEN cleanupMtiBridge(st, c)
     ELSE IF st.S[s].bridges[Head(ds)] # 0
     THEN [Effect(st, s, <<"destroy", st.S[s].bridges[Head(ds)]>>)
             EXCEPT !.K[c].pc = "dgDestroy", !.K[c].b = st.S[s].bridges[Head(ds)],
                    !.K[c].ds = Tail(ds)]
     ELSE cleanupDgBridges(st, c, Tail(ds))

\* lines 419-427
cleanupDgUnregister(st, c) ==
  IF st.S[st.K[c].sess].gw = "deepgram"
  THEN [Effect(st, st.K[c].sess, <<"dgUnregister", 0>>) EXCEPT !.K[c].pc = "dgUnreg"]
  ELSE cleanupDgBridges(st, c, <<"in", "out">>)

\* lines 395-417: for (const [emId, meta] of emMeta.entries())
RECURSIVE cleanupEmMeta(_, _, _)
cleanupEmMeta(st, c, j) ==
  LET s == st.K[c].sess
  IN IF j > Len(st.S[s].emMeta)
     THEN cleanupDgUnregister(st, c)
     ELSE IF st.S[s].emMeta[j].gwName = "mti" /\ st.S[s].emMeta[j].rtpPort # NoPort
     THEN [Effect(st, s, <<"unregister", st.S[s].emMeta[j].rtpPort>>)
             EXCEPT !.K[c].pc = "unreg", !.K[c].k = j]
     ELSE cleanupEmMeta(st, c, j + 1)

NewCleanup(st, s) ==
  [ sess |-> s, uuid |-> st.S[s].uuid, pc |-> "start", k |-> 0, ds |-> <<>>, b |-> 0,
    bridge |-> st.S[s].bridge, snoopId |-> st.S[s].snoopId ]

Called(st, s) == [st EXCEPT !.S[s].recalled = @ \/ st.S[s].cleaned]

\* lines 372-394 without the test of line 376
cleanupSessionNoLatch(st, uuid) ==
  LET s == st.T[uuid]
  IN IF s = NoSess THEN st
     ELSE LET st1 == [Called(st, s) EXCEPT !.S[s].cleaned = TRUE,
                                           !.S[s].passes = @ + 1,
                                           !.K = Append(@, NewCleanup(st, s))]
          IN cleanupEmMeta(st1, Len(st1.K), 1)

\* lines 372-394: the call, up to the first await
cleanupSession(st, uuid) ==
  LET s == st.T[uuid]
  IN IF s = NoSess THEN st
     ELSE IF st.S[s].cleaned THEN Called(st, s)
     ELSE LET st1 == [Called(st, s) EXCEPT !.S[s].cleaned = TRUE,
                                           !.S[s].passes = @ + 1,
                                           !.K = Append(@, NewCleanup(st, s))]
          IN cleanupEmMeta(st1, Len(st1.K), 1)

\* the completion of the await the run c is suspended at
cleanupResume(st, c, ok) ==
  LET k == st.K[c]
      s == k.sess
  IN CASE k.pc = "unreg" ->
            LET p == st.S[s].emMeta[k.k].rtpPort
            IN cleanupEmMeta(Effect(freePort(st, p), s, <<"freePort", p>>), c, k.k + 1)
       [] k.pc = "dgUnreg" -> cleanupDgBridges(st, c, <<"in", "out">>)
       [] k.pc = "dgDestroy" ->
            cleanupDgBridges([st EXCEPT !.B[k.b].state = "destroyed"], c, k.ds)
       [] k.pc = "mtiDestroy" ->
            cleanupHangSnoop([st EXCEPT !.B[k.bridge].state = "destroyed"], c)
       [] k.pc = "getSnoop" ->
            IF ok THEN [Effect(st, s, <<"hangup", k.snoopId>>) EXCEPT !.K[c].pc = "hangSnoop"]
                  ELSE cleanupHangEm(Effect(st, s, <<"gone", k.snoopId>>), c, 1)
       [] k.pc = "hangSnoop" ->
            cleanupHangEm(st, c, 1)
       [] k.pc = "getEm" ->
            IF ok THEN [Effect(st, s, <<"hangup", st.S[s].emIds[k.k]>>)
                          EXCEPT !.K[c].pc = "hangEm"]
                  ELSE cleanupHangEm(Effect(st, s, <<"gone", st.S[s].emIds[k.k]>>),
                                     c, k.k + 1)
       [] k.pc = "hangEm" ->
            cleanupHangEm(st, c, k.k + 1)

(***************************************************************************)
(* The StasisStart flow.                                                   *)
(***************************************************************************)
\* lines 720-732: an exception of the flow reaches the catch of the handler
throwInHandler(st, h) ==
  cleanupSession([st EXCEPT !.H[h].pc = "failed"], st.H[h].uuid)

RECURSIVE throwInHandlers(_, _)
throwInHandlers(st, hs) ==
  IF hs = <<>> THEN st
  ELSE throwInHandlers(throwInHandler(st, Head(hs)), Tail(hs))

RECURSIVE AscendingSeq(_)
AscendingSeq(ids) ==
  IF ids = {} THEN <<>>
  ELSE LET m == CHOOSE x \in ids : \A y \in ids : x <= y
       IN <<m>> \o AscendingSeq(ids \ {m})

\* the handlers suspended on the in-flight creation of (s, d)
Waiters(st, s, d) ==
  {k \in 1..Len(st.H) : st.H[k].sess = s /\ st.H[k].dir = d /\ st.H[k].pc = "waitBridge"}

\* lines 349-367 without the test of line 354
getOrCreateBridgeDirNoSlot(st, h) ==
  LET s == st.H[h].sess
      d == st.H[h].dir
  IN IF st.S[s].bridges[d] # 0
     THEN [st EXCEPT !.H[h].bridge = st.S[s].bridges[d], !.H[h].pc = "addSnoop"]
     ELSE [st EXCEPT !.B = Append(@, NewBridge(s, d)),
                     !.S[s].bridgePromises[d] = "pending",
                     !.H[h].bridge = Len(st.B) + 1,
                     !.H[h].pc = "createBridge"]

\* lines 349-367, up to the first await
getOrCreateBridgeDir(st, h) ==
  LET s == st.H[h].sess
      d == st.H[h].dir
  IN IF st.S[s].bridges[d] # 0
     THEN [st EXCEPT !.H[h].bridge = st.S[s].bridges[d], !.H[h].pc = "addSnoop"]
     ELSE IF st.S[s].bridgePromises[d] = "pending"
     THEN [st EXCEPT !.H[h].pc = "waitBridge", !.H[h].waited = TRUE]
     ELSE IF st.S[s].bridgePromises[d] = "rejected"
     THEN throwInHandler(st, h)
     ELSE [st EXCEPT !.B = Append(@, NewBridge(s, d)),
                     !.S[s].bridgePromises[d] = "pending",
                     !.H[h].bridge = Len(st.B) + 1,
                     !.H[h].pc = "createBridge"]

\* lines 588-617 and 640-665: the handler of snoop channel ch with arguments
\* a, up to its first await
handleSnoop(st, a, ch) ==
  LET st1 == mapChan(st, a.uuid, ch)
      s   == IF st1.T[a.uuid] # NoSess THEN st1.T[a.uuid] ELSE Len(st1.S) + 1
      st2 == IF st1.T[a.uuid] # NoSess THEN st1
             ELSE [st1 EXCEPT !.S = Append(@, NewTapSession(a.uuid, a.gw, ch)),
                              !.T[a.uuid] = s]
      st3 == [st2 EXCEPT !.H = Append(@, NewHandler(s, a, ch))]
      h   == Len(st3.H)
  IN IF a.gw = "deepgram" THEN getOrCreateBridgeDir(st3, h)
     ELSE IF st3.S[s].bridge = 0
     THEN [st3 EXCEPT !.B = Append(@, NewBridge(s, a.dir)),
                      !.H[h].bridge = Len(st3.B) + 1,
                      !.H[h].pc = "createBridge"]
     ELSE [st3 EXCEPT !.H[h].bridge = st3.S[s].bridge, !.H[h].pc = "addSnoop"]

\* the answer to bridge.create(): lines 356-365 (streaming) and 614-620 (framed)
onBridgeCreate(st, h, ok) ==
  LET s == st.H[h].sess
      d == st.H[h].dir
      b == st.H[h].bridge
      w == Waiters(st, s, d)
  IN IF st.H[h].gw = "mti"
     THEN IF ok
          THEN [st EXCEPT !.B[b].state = "created", !.S[s].bridge = b,
                          !.H[h].pc = "addSnoop"]
          ELSE throwInHandler([st EXCEPT !.B[b].state = "failed"], h)
     ELSE IF ok
          THEN [st EXCEPT !.B[b].state = "created",
                          !.S[s].bridges[d] = b,
                          !.S[s].bridgePromises[d] = "null",
                          !.H = [k \in DOMAIN st.H |->
                                   IF k = h \/ k \in w
                                   THEN [st.H[k] EXCEPT !.bridge = b, !.pc = "addSnoop"]
                                   ELSE st.H[k]]]
          ELSE throwInHandlers([st EXCEPT !.B[b].state = "failed",
                                          !.S[s].bridgePromises[d] = "rejected"],
                               <<h>> \o AscendingSeq(w))

\* the answer to bridge.addChannel(snoop), then createExternalMediaForGw up to
\* its first await (lines 476-524); p is the result of allocPort
onSnoopAdd(st, h, ok, p) ==
  LET hr  == st.H[h]
      st1 == [st EXCEPT !.B[hr.bridge].members = @ \cup {hr.ch}]
  IN IF ~ok THEN throwInHandler(st, h)
     ELSE IF hr.gw = "deepgram" THEN [st1 EXCEPT !.H[h].pc = "register"]
     ELSE IF p = NoPort THEN throwInHandler(st1, h)
     ELSE [st1 EXCEPT !.P = @ \cup {p}, !.H[h].rtpPort = p, !.H[h].pc = "register"]

\* the outcome of the gateway /register with a failure of the streaming
\* gateway's register treated as fatal
onRegisterFatal(st, h, res) ==
  IF st.H[h].gw = "mti" /\ res = "non200"
  THEN throwInHandler(freePort(st, st.H[h].rtpPort), h)
  ELSE IF res = "error"
  THEN throwInHandler(st, h)
  ELSE [st EXCEPT !.H[h].pc = "emCreate"]

\* the outcome of the gateway /register (lines 518-549), then the
\* externalMedia request; res is "200", "non200" or "error"
onRegister(st, h, res) ==
  IF st.H[h].gw = "mti" /\ res = "non200"
  THEN throwInHandler(freePort(st, st.H[h].rtpPort), h)
  ELSE IF st.H[h].gw = "mti" /\ res = "error"
  THEN throwInHandler(st, h)
  ELSE [st EXCEPT !.H[h].pc = "emCreate"]

\* the answer to channels.externalMedia (lines 561-570)
onEmCreate(st, h, ok) ==
  IF ok
  THEN [st EXCEPT !.C = Append(@, NewChan("em", st.H[h].uuid, st.H[h].dir)),
                  !.H[h].em = Len(st.C) + 1,
                  !.H[h].tries = 0,
                  !.H[h].pc = "emAdd"]
  ELSE throwInHandler(st, h)

\* the answer to one addChannel of addToBridgeWithRetry (lines 334-346);
\* on success the rest of createExternalMediaForGw (572-581) and of the
\* snoop handler (626-637, 674-685)
onEmAdd(st, h, res) ==
  LET hr == st.H[h]
      s  == hr.sess
  IN IF res = "ok"
     THEN LET st1 == [st EXCEPT
                        !.B[hr.bridge].members = @ \cup {hr.em},
                        !.S[s].emMeta = Append(@, [em |-> hr.em, gwName |-> hr.gw,
                                                   rtpPort |-> hr.rtpPort, dir |-> hr.dir]),
                        !.S[s].emIds = Append(@, hr.em),
                        !.L = @ \cup {hr.ch},
                        !.T[hr.uuid] = s,
                        !.H[h].pc = "done"]
          IN mapChan(st1, hr.uuid, hr.em)
     ELSE IF res = "notfound" THEN [st EXCEPT !.H[h].pc = "emDelay"]
     ELSE throwInHandler(st, h)

\* the end of the delay with one more attempt allowed
onEmDelayOneMore(st, h) ==
  IF st.H[h].tries + 1 <= ADD_TRIES
  THEN [st EXCEPT !.H[h].tries = @ + 1, !.H[h].pc = "emAdd"]
  ELSE throwInHandler(st, h)

\* the end of the delay of addToBridgeWithRetry: next attempt or give up
onEmDelay(st, h) ==
  IF st.H[h].tries + 1 < ADD_TRIES
  THEN [st EXCEPT !.H[h].tries = @ + 1, !.H[h].pc = "emAdd"]
  ELSE throwInHandler(st, h)

(***************************************************************************)
(* Tap orchestrator: actions.                                              *)
(***************************************************************************)
\* ari.on('StasisStart') for a snoop channel (lines 698-733)
StasisStartSnoop(a) ==
  /\ Len(tapHandlers) < MaxStarts
  /\ Cardinality({tapHandlers[h].uuid : h \in 1..Len(tapHandlers)} \cup {a.uuid}) <= MaxCalls
  /\ TapSet(handleSnoop([TapSt EXCEPT !.C = Append(@, NewChan("snoop", a.uuid, a.dir))],
                        a, Len(pbxChans) + 1))
  /\ UNCHANGED <<notTapVars, pbxNotFound>>

\* ari.on('StasisStart') for an external-media channel: ignored (lines 711-715)
StasisStartEm(ch) ==
  /\ pbxChans[ch].kind = "em"
  /\ UNCHANGED tapVars
  /\ UNCHANGED notTapVars

BridgeCreateDone(h, ok) ==
  /\ tapHandlers[h].pc = "createBridge"
  /\ TapSet(onBridgeCreate(TapSt, h, ok))
  /\ UNCHANGED <<notTapVars, pbxNotFound>>

SnoopAddDone(h, ok, p) ==
  /\ tapHandlers[h].pc = "addSnoop"
  /\ ok => pbxBridges[tapHandlers[h].bridge].state = "created"
  /\ IF ok /\ tapHandlers[h].gw = "mti" THEN p \in allocPort(usedPorts) ELSE p = NoPort
  /\ TapSet(onSnoopAdd(TapSt, h, ok, p))
  /\ UNCHANGED <<notTapVars, pbxNotFound>>

RegisterDone(h, res) ==
  /\ tapHandlers[h].pc = "register"
  /\ TapSet(onRegister(TapSt, h, res))
  /\ UNCHANGED <<notTapVars, pbxNotFound>>

EmCreateDone(h, ok) ==
  /\ tapHandlers[h].pc = "emCreate"
  /\ TapSet(onEmCreate(TapSt, h, ok))
  /\ UNCHANGED <<notTapVars, pbxNotFound>>

EmAddDone(h, res, maxNotFound) ==
  /\ tapHandlers[h].pc = "emAdd"
  /\ res = "ok" => pbxBridges[tapHandlers[h].bridge].state = "created"
  /\ res = "notfound" => pbxNotFound < maxNotFound
  /\ pbxNotFound' = IF res = "notfound" THEN pbxNotFound + 1 ELSE pbxNotFound
  /\ TapSet(onEmAdd(TapSt, h, res))
  /\ UNCHANGED notTapVars

EmDelayDone(h) ==
  /\ tapHandlers[h].pc = "emDelay"
  /\ TapSet(onEmDelay(TapSt, h))
  /\ UNCHANGED <<notTapVars, pbxNotFound>>

\* ari.on('ChannelHangupRequest') (lines 736-743)
ChannelHangupRequest(ch) ==
  /\ LET uuid == findUuidByChannel(TapSt, ch)
         st1  == IF uuid # NoUuid THEN cleanupSession(TapSt, uuid) ELSE TapSt
         s    == sessions[OrigUuid]
     IN TapSet(IF ch = OrigChan /\ s # NoSess /\ ~tapSess[s].cleaned
               THEN [st1 EXCEPT !.S[s].origHangup = TRUE]
               ELSE st1)
  /\ UNCHANGED <<notTapVars, pbxNotFound>>

\* a StasisEnd event: the global listener (lines 745-761), then the listener
\* of the channel if a snoop handler installed one (lines 632-635, 680-683)
StasisEnd(ch) ==
  /\ LET uuid == findUuidByChannel(TapSt, ch)
         st1  == IF uuid # NoUuid THEN cleanupSession(TapSt, uuid) ELSE TapSt
     IN TapSet(IF ch \in stasisEndSubs THEN cleanupSession(st1, pbxChans[ch].uuid)
                                       ELSE st1)
  /\ UNCHANGED <<notTapVars, pbxNotFound>>

\* the completion of the request a cleanupSession run waits for
CleanupStep(c, ok) ==
  /\ tapCleanups[c].pc # "done"
  /\ tapCleanups[c].pc \notin {"getSnoop", "getEm"} => ok
  /\ TapSet(cleanupResume(TapSt, c, ok))
  /\ UNCHANGED <<notTapVars, pbxNotFound>>

TapNext ==
  \/ \E a \in TapStarts : StasisStartSnoop(a)
  \/ \E ch \in 1..Len(pbxChans) : StasisStartEm(ch)
  \/ \E h \in 1..Len(tapHandlers), ok \in BOOLEAN : BridgeCreateDone(h, ok)
  \/ \E h \in 1..Len(tapHandlers), ok \in BOOLEAN, p \in (RTP_START..RTP_END) \cup {NoPort} :
        SnoopAddDone(h, ok, p)
  \/ \E h \in 1..Len(tapHandlers), res \in {"200", "non200", "error"} : RegisterDone(h, res)
  \/ \E h \in 1..Len(tapHandlers), ok \in BOOLEAN : EmCreateDone(h, ok)
  \/ \E h \in 1..Len(tapHandlers), res \in {"ok", "notfound", "fatal"} : EmAddDone(h, res, MaxNotFound)
  \/ \E h \in 1..Len(tapHandlers) : EmDelayDone(h)
  \/ \E ch \in (1..Len(pbxChans)) \cup {OrigChan} : ChannelHangupRequest(ch)
  \/ \E ch \in 1..Len(pbxChans) : StasisEnd(ch)
  \/ \E c \in 1..Len(tapCleanups), ok \in BOOLEAN : CleanupStep(c, ok)

SpecTap == InitOther /\ [][TapNext]_vars

(***************************************************************************)
(* Tap orchestrator: properties.                                           *)
(***************************************************************************)
TapIds == 1..Len(tapSess)
NoRepeat(seq) == \A i, j \in 1..Len(seq) : i # j => seq[i] # seq[j]
CleanupRunsOf(s) == {c \in 1..Len(tapCleanups) : tapCleanups[c].sess = s}
BridgesOf(s, d) ==
  {b \in 1..Len(pbxBridges) : pbxBridges[b].sess = s /\ pbxBridges[b].dir = d}
BridgesOfCall(u, d) ==
  {b \in 1..Len(pbxBridges) : tapSess[pbxBridges[b].sess].uuid = u /\ pbxBridges[b].dir = d}

\* C6: whatever terminal events arrive for a call (ChannelHangupRequest, global
\* and per-snoop StasisEnd, an exception of the StasisStart flow), cleanupSession
\* goes past its latch at most once for a session, none of its destructive steps
\* (gateway unregister, port free, bridge destroy, channel hangup, session
\* removal) is performed twice for it, and a call of cleanupSession that finds
\* the session already cleaned changes nothing: the steps performed on a cleaned
\* session grow only by its one run going on.
C6_CleanupOnce ==
  /\ [](\A s \in TapIds :
          /\ tapSess[s].passes <= 1
          /\ Cardinality(CleanupRunsOf(s)) = tapSess[s].passes
          /\ NoRepeat(tapSess[s].effects)
          /\ (tapSess[s].effects # <<>> => tapSess[s].cleaned))
  /\ [][\A s \in TapIds :
          (tapSess[s].cleaned /\ tapSess'[s].effects # tapSess[s].effects)
            => \E c \in CleanupRunsOf(s) :
                  /\ tapCleanups[c].pc # "done"
                  /\ tapCleanups'[c] # tapCleanups[c]
                  /\ \A c2 \in 1..Len(tapCleanups) :
                        c2 # c => tapCleanups'[c2] = tapCleanups[c2]]_vars

\* a session whose one cleanup run is over (it destroyed a bridge, hung up a
\* channel and removed the session) and for which cleanupSession was called
\* again
C6_Witness ==
  \E s \in TapIds :
    /\ tapSess[s].passes = 1
    /\ tapSess[s].recalled
    /\ \A c \in CleanupRunsOf(s) : tapCleanups[c].pc = "done"
    /\ \E k \in 1..Len(tapSess[s].effects) : tapSess[s].effects[k][1] = "destroy"
    /\ \E k \in 1..Len(tapSess[s].effects) : tapSess[s].effects[k][1] = "hangup"
    /\ \E k \in 1..Len(tapSess[s].effects) : tapSess[s].effects[k][1] = "delete"

PENDING_TTL_MS  == 4000
INACT_MS        == 8000
BOOT_FRAMES     == 50
WATCHDOG_MS     == 2000                \* period of the watchdog interval
RECONNECT_BASE_MS == 500
RECONNECT_MAX_MS  == 8000
JITTER_MS         == 200

\* the clock of the streaming gateway advances by one watchdog period
SgwTickMs == WATCHDOG_MS

Ssrcs     == {7, 9}
UnknownUuid == "unknown"

\* query strings of /register
SgwRegs ==
  { [uuid |-> "A1", exten |-> "100", caller |-> "600", callername |-> "",    dir |-> "in",
     force |-> ""],
    [uuid |-> "B2", exten |-> "",    caller |-> "",    callername |-> "Bob", dir |-> "out",
     force |-> ""],
    [uuid |-> "",   exten |-> "100", caller |-> "",    callername |-> "",    dir |-> "in",
     force |-> ""] }

\* the query strings of the registers of call A1, one per direction, with and
\* without force_start=1 and with a changed extension
RegQueries ==
  [uuid : {"A1"}, exten : {"100", "200", ""}, caller : {"600"}, callername : {""},
   dir : Dirs, force : {"", "1"}]
  \cup { [uuid |-> "", exten |-> "100", caller |-> "", callername |-> "", dir |-> "in",
          force |-> "1"] }

\* RTP datagrams received on a direction port: the SSRC and the header fields
SgwPackets ==
  { [ssrc |-> s, d |-> [len |-> 340, cc |-> 0, x |-> TRUE, extLen |-> 1]] : s \in Ssrcs }
  \cup { [ssrc |-> 7, d |-> [len |-> 8,  cc |-> 0, x |-> FALSE, extLen |-> 0]],
         [ssrc |-> 7, d |-> [len |-> 16, cc |-> 1, x |-> FALSE, extLen |-> 0]] }

NoCtx == [has |-> FALSE, exten |-> "", caller |-> "", callername |-> ""]
NoPending == [uuid |-> NoUuid, ts |-> 0 - 1]

\* lines 746-758: the length of the payload, 0 when rtpPayload returns null
sgwRtpPayloadLen(d) ==
  LET off0 == 12 + d.cc * 4
      off  == IF d.x THEN off0 + 4 + d.extLen * 4 ELSE off0
  IN IF d.len < 12 THEN 0
     ELSE IF d.x /\ d.len < off0 + 4 THEN 0
     ELSE IF d.len <= off THEN 0
     ELSE d.len - off

\* x => now - x.ts < PENDING_TTL_MS
Fresh(q, t) ==
  LET keep(x) == t - x.ts < PENDING_TTL_MS
  IN SelectSeq(q, keep)

\* lines 496-501
pushPending(P, dir, uuid, t) ==
  IF dir \notin Dirs THEN P
  ELSE [P EXCEPT ![dir] = Fresh(Append(@, [uuid |-> uuid, ts |-> t]), t)]

\* lines 503-508 without the filter of line 506
popPendingNoExpiry(P, dir, t) ==
  IF dir \notin Dirs THEN [P |-> P, p |-> NoPending]
  ELSE IF P[dir] = <<>> THEN [P |-> P, p |-> NoPending]
  ELSE [P |-> [P EXCEPT ![dir] = Tail(@)], p |-> Head(P[dir])]

\* lines 503-508: the new lists and the entry returned (NoPending for null)
popPending(P, dir, t) ==
  IF dir \notin Dirs THEN [P |-> P, p |-> NoPending]
  ELSE LET q == Fresh(P[dir], t)
       IN IF q = <<>> THEN [P |-> [P EXCEPT ![dir] = q], p |-> NoPending]
          ELSE [P |-> [P EXCEPT ![dir] = Tail(q)], p |-> Head(q)]

\* lines 775-782 reading the list of the opposite direction
resolveContextOtherDir(P, X, dir, t) ==
  LET r == popPending(P, IF dir = "in" THEN "out" ELSE "in", t)
  IN IF r.p # NoPending
     THEN [P |-> r.P, p |-> r.p, uuid |-> r.p.uuid, ctx |-> X[r.p.uuid]]
     ELSE [P |-> r.P, p |-> r.p, uuid |-> UnknownUuid, ctx |-> NoCtx]

\* lines 775-782: P is pendingByDir, X is ctxByUuid
resolveContextForNewSSRC(P, X, dir, t) ==
  LET r == popPending(P, dir, t)
  IN IF r.p # NoPending
     THEN [P |-> r.P, p |-> r.p, uuid |-> r.p.uuid, ctx |-> X[r.p.uuid]]
     ELSE [P |-> r.P, p |-> r.p, uuid |-> UnknownUuid, ctx |-> NoCtx]

\* a || b for strings
OrElse(a, b) == IF a # "" THEN a ELSE b

\* lines 815-840: the session object of ensureSess
NewSgwSession(ssrc, dir, r, ws, t) ==
  [ ssrc       |-> ssrc,
    ws         |-> ws,
    room       |-> IF r.ctx.has THEN OrElse(r.ctx.exten, "mix") ELSE "mix",
    uuid       |-> r.uuid,
    dir        |-> dir,
    exten      |-> IF r.ctx.has THEN OrElse(r.ctx.exten, "mix") ELSE "mix",
    caller     |-> IF r.ctx.has THEN r.ctx.caller ELSE "",
    callername |-> IF r.ctx.has THEN r.ctx.callername ELSE "",
    boot       |-> <<>>,
    last       |-> t,
    timer      |-> "running",        \* startWatchdog
    reconnects |-> 0,
    closing    |-> FALSE,
    \* history
    pendingAge |-> IF r.p = NoPending THEN 0 - 1 ELSE t - r.p.ts ]
                                     \* age of the pending entry adopted (-1: none)

NewWs(s) == [ sess |-> s, state |-> "connecting", sent |-> <<>> ]

\* values of Math.floor(Math.random() * 200)
Jitters == {0, JITTER_MS - 1}

Min(a, b) == IF a <= b THEN a ELSE b

\* lines 589-593 without the doubling per attempt
nextBackoffMsFlat(attempt, jitter) ==
  Min(RECONNECT_MAX_MS, RECONNECT_BASE_MS) + jitter

\* lines 589-593: jitter is the value of Math.floor(Math.random() * 200)
nextBackoffMs(attempt, jitter) ==
  Min(RECONNECT_MAX_MS, RECONNECT_BASE_MS * (2 ^ attempt)) + jitter

SgwLive == {s \in Ssrcs : rtpSessions[s] # NoSess}

\* lines 805-850 without the test of lines 809-812
ensureSessNoCap(S, R, W, P, X, ssrc, dir, t) ==
  IF R[ssrc] # NoSess
  THEN [sess |-> R[ssrc], S |-> S, R |-> R, W |-> W, P |-> P]
  ELSE LET r == resolveContextForNewSSRC(P, X, dir, t)
           s == Len(S) + 1
           w == Len(W) + 1
       IN [ sess |-> s,
            S |-> Append(S, NewSgwSession(ssrc, dir, r, w, t)),
            R |-> [R EXCEPT ![ssrc] = s],
            W |-> Append(W, NewWs(s)),
            P |-> r.P ]

\* lines 805-850: ensureSess for a packet of ssrc on the port of dir; the
\* result names the session (NoSess for null) and the new state
ensureSess(S, R, W, P, X, ssrc, dir, t) ==
  IF R[ssrc] # NoSess
  THEN [sess |-> R[ssrc], S |-> S, R |-> R, W |-> W, P |-> P]
  ELSE IF Cardinality({x \in Ssrcs : R[x] # NoSess}) >= DG_MAX_SESSIONS
  THEN [sess |-> NoSess, S |-> S, R |-> R, W |-> W, P |-> P]
  ELSE LET r == resolveContextForNewSSRC(P, X, dir, t)
           s == Len(S) + 1
           w == Len(W) + 1
       IN [ sess |-> s,
            S |-> Append(S, NewSgwSession(ssrc, dir, r, w, t)),
            R |-> [R EXCEPT ![ssrc] = s],
            W |-> Append(W, NewWs(s)),
            P |-> r.P ]


(***************************************************************************)
(* Generative assistant (deepgram-gw.js, lines 320-329, 427-494, 959-1049).*)
(***************************************************************************)
GENERATIVE_ASSISTANT == TRUE          \* the deployment enables the assistant
GEN_ASS_TAIL_CHARS   == 2000
GEN_ASS_MIN_CHARS    == 120
DG_ROLE_MODE         == "CALLER_IN"

\* text.length of the final transcripts and of the assistant answers
TextLens == {60}

\* lines 450-463
llmRoleForDir(dir) ==
  IF DG_ROLE_MODE = "AGENT_IN"
  THEN (IF dir = "in" THEN "agent" ELSE "user")
  ELSE (IF dir = "in" THEN "user" ELSE "agent")

\* convByUuid.get(uuid): the index of the entry of uuid in the Map, 0 for none
ConvOf(C, uuid) ==
  IF \E i \in 1..Len(C) : C[i].live /\ C[i].uuid = uuid
  THEN CHOOSE i \in 1..Len(C) : C[i].live /\ C[i].uuid = uuid
  ELSE 0

\* line 468
NewConv(uuid) ==
  [ uuid |-> uuid, live |-> TRUE, items |-> <<>>, totalChars |-> 0, lastSentItems |-> 0,
    \* history: the item count of conv.items at each POST issued for the object
    posts |-> <<>> ]

\* lines 465-473
genAssEnsureConv(C, uuid) ==
  IF ConvOf(C, uuid) # 0 THEN C ELSE Append(C, NewConv(uuid))

\* lines 475-488
genAssAddFinalSegment(C, uuid, dir, len) ==
  IF ~GENERATIVE_ASSISTANT \/ len = 0 THEN C
  ELSE LET C1 == genAssEnsureConv(C, uuid)
           i  == ConvOf(C1, uuid)
       IN [C1 EXCEPT ![i].items = Append(@, [speaker |-> llmRoleForDir(dir), len |-> len]),
                     ![i].totalChars = @ + len]

\* lines 490-494
genAssCleanupConversation(C, uuid) ==
  [i \in 1..Len(C) |-> IF C[i].live /\ C[i].uuid = uuid
                       THEN [C[i] EXCEPT !.live = FALSE] ELSE C[i]]

\* lines 963-970: the conversation is not skipped by the cycle
genSampled(conv) ==
  /\ conv.items # <<>>
  /\ conv.totalChars >= GEN_ASS_MIN_CHARS
  /\ ~(conv.lastSentItems # 0 /\ Len(conv.items) = conv.lastSentItems)

RECURSIVE SumLen(_)
SumLen(items) == IF items = <<>> THEN 0 ELSE Head(items).len + SumLen(Tail(items))

\* lines 972-984: the shortest suffix of items with GEN_ASS_TAIL_CHARS
\* characters or more, all items when there is none
genTail(items) ==
  LET n == Len(items)
      K == {k \in 1..n : SumLen(SubSeq(items, k, n)) >= GEN_ASS_TAIL_CHARS}
  IN IF GEN_ASS_TAIL_CHARS > 0 /\ K # {}
     THEN SubSeq(items, CHOOSE k \in K : \A j \in K : j <= k, n)
     ELSE items

\* the for-of loop over convByUuid.entries() (line 963) from the entry after
\* `from` up to its next POST: the entry posted for, 0 when the loop ends
genNextPost(C, from) ==
  LET E == {i \in (from + 1)..Len(C) : C[i].live /\ genSampled(C[i])}
  IN IF E = {} THEN 0 ELSE CHOOSE i \in E : \A j \in E : i <= j

\* lines 986-999: the POST for entry i is issued by cycle y
genPost(C, y, i) ==
  IF i = 0 THEN [C |-> C, y |-> [y EXCEPT !.pc = "done"]]
  ELSE [ C |-> [C EXCEPT ![i].posts = Append(@, Len(C[i].items))],
         y |-> [ pc |-> "post", pos |-> i, source |-> Len(C[i].items),
                 payload |-> genTail(C[i].items) ] ]

\* the answers to a POST: an assistant text for the agent, an empty body or
\* one without assistant, an assistant without visible text, a failure
PostAnswers == {"assistant", "empty", "notext", "error"}

(***************************************************************************)
(* Streaming gateway: actions.                                             *)
(***************************************************************************)
\* lines 548-559 emitting for every /register
callStartEmittedAlways(isNew, force) == TRUE

\* lines 548-559: the condition under which /register emits call-start
callStartEmitted(isNew, force) == isNew \/ force = "1"

NoCallStart == [regs |-> 0, forced |-> 0, n |-> 0, room |-> ""]

\* app.get('/register') (lines 510-566); at most maxRegs requests in a run
SgwRegister(q, maxRegs) ==
  /\ IF q.uuid = NoUuid
     THEN UNCHANGED <<ctxByUuid, pendingByDir, sgwRegs, callStart>>   \* 400
     ELSE LET isNew == ~ctxByUuid[q.uuid].has
              ctx   == IF isNew
                       THEN [has |-> TRUE, exten |-> OrElse(q.exten, "mix"),
                             caller |-> q.caller, callername |-> q.callername]
                       ELSE [has |-> TRUE,
                             exten |-> OrElse(q.exten, ctxByUuid[q.uuid].exten),
                             caller |-> OrElse(q.caller, ctxByUuid[q.uuid].caller),
                             callername |-> OrElse(q.callername,
                                                   ctxByUuid[q.uuid].callername)]
              emit  == callStartEmitted(isNew, q.force)
          IN /\ sgwRegs < maxRegs
             /\ sgwRegs' = sgwRegs + 1
             /\ ctxByUuid' = [ctxByUuid EXCEPT ![q.uuid] = ctx]
             /\ pendingByDir' = pushPending(pendingByDir, q.dir, q.uuid, now)
             /\ callStart' =
                  [callStart EXCEPT ![q.uuid] =
                     [regs   |-> @.regs + 1,
                      forced |-> IF q.force = "1" THEN @.forced + 1 ELSE @.forced,
                      n      |-> IF emit THEN @.n + 1 ELSE @.n,
                      room   |-> IF emit THEN ctx.exten ELSE @.room]]
  /\ UNCHANGED <<now, sgwSess, rtpSessions, sgwWs, sgwTimers, sgwPkts, firstBind,
                 DG_MAX_SESSIONS, sgwDropped>>
  /\ UNCHANGED notSgwVars

\* app.get('/unregister') (lines 568-581)
SgwUnregister(uuid) ==
  /\ ctxByUuid' = IF uuid # NoUuid THEN [ctxByUuid EXCEPT ![uuid] = NoCtx] ELSE ctxByUuid
  /\ callStart' = IF uuid # NoUuid THEN [callStart EXCEPT ![uuid] = NoCallStart]
                                   ELSE callStart
  /\ genConvs' = IF uuid # NoUuid /\ GENERATIVE_ASSISTANT
                  THEN genAssCleanupConversation(genConvs, uuid) ELSE genConvs
  /\ UNCHANGED <<now, pendingByDir, sgwSess, rtpSessions, sgwWs, sgwTimers,
                 sgwPkts, firstBind, sgwRegs, DG_MAX_SESSIONS, sgwDropped>>
  /\ UNCHANGED <<fgwVars, tapVars, fnVars, genCycles>>

\* onRtpMessage(dir) (lines 852-894) for datagram k
RtpMessage(dir, k) ==
  /\ LET e  == ensureSess(sgwSess, rtpSessions, sgwWs, pendingByDir, ctxByUuid,
                          k.ssrc, dir, now)
         id == sgwPkts + 1
     IN IF sgwRtpPayloadLen(k.d) = 0
        THEN UNCHANGED <<sgwSess, rtpSessions, sgwWs, pendingByDir, sgwPkts,
                         firstBind, sgwDropped>>
        ELSE IF e.sess = NoSess                           \* if (!sess) return
        THEN /\ sgwDropped < MaxSgwDrops
             /\ sgwDropped' = sgwDropped + 1
             /\ sgwSess' = e.S /\ rtpSessions' = e.R /\ sgwWs' = e.W
             /\ pendingByDir' = e.P
             /\ UNCHANGED <<sgwPkts, firstBind>>
        ELSE /\ sgwPkts < MaxSgwPackets
             /\ Len(e.S) <= MaxSgwSessions
             /\ sgwPkts' = id
             /\ rtpSessions' = e.R
             /\ pendingByDir' = e.P
             /\ firstBind' =
                  IF ~firstBind[k.ssrc].bound
                  THEN [firstBind EXCEPT ![k.ssrc] =
                          [bound |-> TRUE, uuid |-> e.S[e.sess].uuid,
                           dir |-> e.S[e.sess].dir, room |-> e.S[e.sess].room]]
                  ELSE firstBind
             /\ LET w == e.S[e.sess].ws
                IN IF e.W[w].state = "open"
                   THEN /\ sgwWs' = [e.W EXCEPT ![w].sent = Append(@, id)]
                        /\ sgwSess' = [e.S EXCEPT ![e.sess].last = now]
                   ELSE /\ sgwWs' = e.W
                        /\ sgwSess' =
                             [e.S EXCEPT ![e.sess].last = now,
                                         ![e.sess].boot =
                                            IF Len(@) < BOOT_FRAMES
                                            THEN Append(@, id) ELSE @]
             /\ UNCHANGED sgwDropped
  /\ UNCHANGED <<now, ctxByUuid, sgwTimers, sgwRegs, DG_MAX_SESSIONS, callStart>>
  /\ UNCHANGED notSgwVars

\* ws.on('open') (lines 609-616)
WsOpen(w) ==
  /\ sgwWs[w].state = "connecting"
  /\ LET s == sgwWs[w].sess
     IN /\ sgwWs' = [sgwWs EXCEPT ![w].state = "open",
                                  ![w].sent = @ \o sgwSess[s].boot]
        /\ sgwSess' = [sgwSess EXCEPT ![s].boot = <<>>]
  /\ UNCHANGED <<now, rtpSessions, ctxByUuid, pendingByDir, sgwTimers, sgwPkts,
                 firstBind, sgwRegs, DG_MAX_SESSIONS, sgwDropped, callStart>>
  /\ UNCHANGED notSgwVars

\* ws.on('close') (lines 670-686): the reconnect is scheduled unless the
\* session is closing; a socket that closed outside a teardown is "lost".
\* At most maxWs sockets are opened in a run.
WsClose(w, jitter, maxWs) ==
  /\ sgwWs[w].state \in {"connecting", "open", "closing"}
  /\ Len(sgwWs) < maxWs \/ sgwSess[sgwWs[w].sess].closing
  /\ LET s == sgwWs[w].sess
     IN IF sgwSess[s].closing
        THEN /\ sgwWs' = [sgwWs EXCEPT ![w].state = "closed"]
             /\ UNCHANGED <<sgwSess, sgwTimers>>
        ELSE LET attempt == sgwSess[s].reconnects
                 waitMs  == nextBackoffMs(attempt, jitter)
             IN /\ sgwWs' = [sgwWs EXCEPT ![w].state = "lost"]
                /\ sgwSess' = [sgwSess EXCEPT ![s].reconnects = @ + 1]
                /\ sgwTimers' = sgwTimers \cup
                      {[sess |-> s, attempt |-> attempt, waitMs |-> waitMs]}
  /\ UNCHANGED <<now, rtpSessions, ctxByUuid, pendingByDir, sgwPkts, firstBind,
                 sgwRegs, DG_MAX_SESSIONS, sgwDropped, callStart>>
  /\ UNCHANGED notSgwVars

\* the reconnect timer tm fires (lines 680-685)
ReconnectFire(tm) ==
  /\ tm \in sgwTimers
  /\ sgwTimers' = sgwTimers \ {tm}
  /\ LET s == tm.sess
     IN IF rtpSessions[sgwSess[s].ssrc] = NoSess
        THEN UNCHANGED <<sgwSess, sgwWs>>
        ELSE /\ sgwWs' = Append(sgwWs, NewWs(s))
             /\ sgwSess' = [sgwSess EXCEPT ![s].ws = Len(sgwWs) + 1]
  /\ UNCHANGED <<now, rtpSessions, ctxByUuid, pendingByDir, sgwPkts, firstBind,
                 sgwRegs, DG_MAX_SESSIONS, sgwDropped, callStart>>
  /\ UNCHANGED notSgwVars

\* line 786 firing at the threshold
sgwInactiveAtThreshold(sess, t) == t - sess.last >= INACT_MS

\* line 786: Date.now() - sess.last > INACT_MS
sgwInactive(sess, t) == t - sess.last > INACT_MS

\* one firing of the watchdog interval of session s (lines 784-803)
SgwWatchdog(s) ==
  /\ sgwSess[s].timer = "running"
  /\ sgwInactive(sgwSess[s], now)
  /\ sgwSess' = [sgwSess EXCEPT ![s].closing = TRUE, ![s].timer = "cleared"]
  /\ sgwWs' = [sgwWs EXCEPT ![sgwSess[s].ws].state =
                              IF @ \in {"connecting", "open"} THEN "closing" ELSE @]
  /\ rtpSessions' = [rtpSessions EXCEPT ![sgwSess[s].ssrc] = NoSess]
  /\ LET stillHas == \E x \in Ssrcs : /\ rtpSessions'[x] # NoSess
                                      /\ sgwSess[rtpSessions'[x]].uuid = sgwSess[s].uuid
     IN genConvs' = IF GENERATIVE_ASSISTANT /\ ~stillHas
                    THEN genAssCleanupConversation(genConvs, sgwSess[s].uuid)
                    ELSE genConvs
  /\ UNCHANGED <<now, ctxByUuid, pendingByDir, sgwTimers, sgwPkts, firstBind,
                 sgwRegs, DG_MAX_SESSIONS, sgwDropped, callStart>>
  /\ UNCHANGED <<fgwVars, tapVars, fnVars, genCycles>>

\* time passes while it can still change what a read of the clock decides:
\* a pending entry is not yet expired or a watched session not yet inactive
SgwTick ==
  /\ now + SgwTickMs <= MaxSgwTicks * SgwTickMs
  /\ \/ \E d \in Dirs : Fresh(pendingByDir[d], now) # <<>>
     \/ \E s \in 1..Len(sgwSess) :
           sgwSess[s].timer = "running" /\ now - sgwSess[s].last <= INACT_MS
  /\ now' = now + SgwTickMs
  /\ UNCHANGED sgwVars
  /\ UNCHANGED notSgwVars

\* ws.on('message') with a final Results message whose transcript has len
\* characters (lines 618-636); at most maxItems items in a run
WsFinal(w, len, maxItems) ==
  /\ sgwWs[w].state = "open"
  /\ \A i \in 1..Len(genConvs) : Len(genConvs[i].items) < maxItems
  /\ LET s == sgwWs[w].sess
     IN genConvs' = genAssAddFinalSegment(genConvs, sgwSess[s].uuid, sgwSess[s].dir, len)
  /\ UNCHANGED <<now, sgwVars, fgwVars, tapVars, fnVars, genCycles>>

\* the interval of line 1047 fires: runGenAssistantCycle up to its first
\* await (lines 959-999); a run that issues no POST changes nothing. At most
\* maxCycles runs issue a POST.
GenCycleStart(maxCycles) ==
  /\ GENERATIVE_ASSISTANT
  /\ LET i == genNextPost(genConvs, 0)
     IN IF i = 0 THEN UNCHANGED genVars
        ELSE /\ Len(genCycles) < maxCycles
             /\ LET r == genPost(genConvs, [pc |-> "start"], i)
                IN /\ genConvs' = r.C
                   /\ genCycles' = Append(genCycles, r.y)
  /\ UNCHANGED <<now, sgwVars, fgwVars, tapVars, fnVars>>

\* the POST of cycle c is answered (lines 999-1042), the finally block runs
\* and the loop goes on to its next POST or ends
GenPostDone(c, res, len) ==
  /\ genCycles[c].pc = "post"
  /\ LET i    == genCycles[c].pos
         uuid == genConvs[i].uuid
         C1   == IF res = "assistant"
                 THEN LET C0 == genAssEnsureConv(genConvs, uuid)
                          j  == ConvOf(C0, uuid)
                      IN [C0 EXCEPT ![j].items =
                                       Append(@, [speaker |-> "assistant", len |-> len])]
                 ELSE genConvs
         C2   == [C1 EXCEPT ![i].lastSentItems = Len(C1[i].items)]
         r    == genPost(C2, genCycles[c], genNextPost(C2, i))
     IN /\ genConvs' = r.C
        /\ genCycles' = [genCycles EXCEPT ![c] = r.y]
  /\ UNCHANGED <<now, sgwVars, fgwVars, tapVars, fnVars>>

\* registration, binding, session cap and watchdog; the sockets close on
\* request only, the closes that come unasked are in RcNext
SgwNext ==
  \/ \E q \in SgwRegs : SgwRegister(q, MaxSgwRegs)
  \/ \E uuid \in Uuids \cup {NoUuid} : SgwUnregister(uuid)
  \/ \E dir \in Dirs, k \in SgwPackets : RtpMessage(dir, k)
  \/ \E w \in 1..Len(sgwWs) : WsOpen(w)
  \/ \E w \in 1..Len(sgwWs) : sgwWs[w].state = "closing" /\ WsClose(w, 0, MaxSgwWs)
  \/ \E s \in 1..Len(sgwSess) : SgwWatchdog(s)
  \/ SgwTick

SpecSgw == Init /\ [][SgwNext]_vars

\* the reconnect loop: no /register, longer chains of sockets, every jitter
RcNext ==
  \/ \E dir \in Dirs, k \in SgwPackets : RtpMessage(dir, k)
  \/ \E w \in 1..Len(sgwWs) : WsOpen(w)
  \/ \E w \in 1..Len(sgwWs), jitter \in Jitters : WsClose(w, jitter, MaxRcWs)
  \/ \E tm \in sgwTimers : ReconnectFire(tm)
  \/ \E s \in 1..Len(sgwSess) : SgwWatchdog(s)
  \/ SgwTick

SpecRc == InitOther /\ [][RcNext]_vars

\* the registration: /register and /unregister of one call
RegNext ==
  \/ \E q \in RegQueries : SgwRegister(q, MaxRegRegs)
  \/ \E uuid \in {"A1", NoUuid} : SgwUnregister(uuid)

SpecReg == InitOther /\ [][RegNext]_vars

(***************************************************************************)
(* Streaming gateway: properties.                                          *)
(***************************************************************************)
OtherDir(d) == IF d = "in" THEN "out" ELSE "in"

\* C8: a step that creates the session of an SSRC on direction d gives it the
\* uuid of the oldest non-expired entry of d's pending list and removes that
\* entry (with the expired ones before it); exten, caller and callername are
\* those of the registration context of that uuid and the room is its exten
\* ("mix" and empty names if the uuid has no context any more).  With no
\* non-expired entry the session gets uuid "unknown" and exten and room "mix".
\* The list of the other direction is left as it was.
C8_FirstPacketBinding ==
  [][\A ssrc \in Ssrcs :
       (rtpSessions[ssrc] = NoSess /\ rtpSessions'[ssrc] # NoSess)
         => LET n    == sgwSess'[rtpSessions'[ssrc]]
                live == Fresh(pendingByDir[n.dir], now)
                ctx  == ctxByUuid[n.uuid]
            IN /\ pendingByDir'[OtherDir(n.dir)] = pendingByDir[OtherDir(n.dir)]
               /\ IF live # <<>>
                  THEN /\ n.uuid = Head(live).uuid
                       /\ pendingByDir'[n.dir] = Tail(live)
                       /\ IF ctx.has
                          THEN /\ n.exten = ctx.exten /\ n.room = ctx.exten
                               /\ n.caller = ctx.caller
                               /\ n.callername = ctx.callername
                          ELSE /\ n.exten = "mix" /\ n.room = "mix"
                               /\ n.caller = "" /\ n.callername = ""
                  ELSE /\ n.uuid = UnknownUuid
                       /\ n.exten = "mix" /\ n.room = "mix"
                       /\ pendingByDir'[n.dir] = <<>>]_vars

\* a session bound to the registered call A1 with the fields of its context,
\* and a session of the same direction bound to "unknown" in room "mix" while
\* the list of the other direction still holds its entry
C8_Witness ==
  \E s1, s2 \in 1..Len(sgwSess) :
    /\ sgwSess[s1].uuid = "A1" /\ sgwSess[s1].dir = "in"
    /\ sgwSess[s1].exten = "100" /\ sgwSess[s1].room = "100"
    /\ sgwSess[s1].caller = "600"
    /\ sgwSess[s2].uuid = UnknownUuid /\ sgwSess[s2].dir = "in"
    /\ sgwSess[s2].room = "mix"
    /\ Len(pendingByDir["out"]) = 1

\* C9: the uuid, direction and room under which the packets of an SSRC are
\* handled are those fixed by the first packet of that SSRC, also after the
\* session of the SSRC was removed for inactivity and the SSRC is seen again.
C9_BindingStable ==
  \A ssrc \in Ssrcs :
    rtpSessions[ssrc] # NoSess
      => /\ firstBind[ssrc].bound
         /\ sgwSess[rtpSessions[ssrc]].uuid = firstBind[ssrc].uuid
         /\ sgwSess[rtpSessions[ssrc]].dir  = firstBind[ssrc].dir
         /\ sgwSess[rtpSessions[ssrc]].room = firstBind[ssrc].room

\* C10: the pending entry a session adopted was younger than PENDING_TTL_MS
\* when popPending returned it; after every push and every read of a list no
\* expired entry is left in it; and the entry returned by a read is the oldest
\* non-expired one, whatever expired entries stand before it.
C10_PendingTtl ==
  /\ [](\A s \in 1..Len(sgwSess) : sgwSess[s].pendingAge < PENDING_TTL_MS)
  /\ [][\A d \in Dirs :
          pendingByDir'[d] # pendingByDir[d]
            => \A k \in 1..Len(pendingByDir'[d]) :
                  now - pendingByDir'[d][k].ts < PENDING_TTL_MS]_vars
  /\ [][\A ssrc \in Ssrcs :
          (rtpSessions[ssrc] = NoSess /\ rtpSessions'[ssrc] # NoSess)
            => LET n    == sgwSess'[rtpSessions'[ssrc]]
                   live == Fresh(pendingByDir[n.dir], now)
               IN n.pendingAge = IF live = <<>> THEN 0 - 1 ELSE now - Head(live).ts]_vars

\* two /register of direction in at 0 and 2000 ms, the first packet at 4000 ms:
\* the entry of age 4000 was discarded and the one of age 2000 adopted
C10_Witness ==
  /\ sgwRegs = 2 /\ sgwPkts = 1 /\ Len(sgwSess) = 1
  /\ sgwSess[1].dir = "in" /\ sgwSess[1].uuid = "A1"
  /\ sgwSess[1].pendingAge = 2000
  /\ sgwSess[1].last = PENDING_TTL_MS
  /\ pendingByDir = [d \in Dirs |-> <<>>]

\* C11: the session table never holds more sessions than the cap
\* DG_MAX_SESSIONS; a packet is refused only while the table holds as many
\* sessions as the cap (so below the cap, as after a removal by the watchdog,
\* a new SSRC is admitted), and the refusal creates no session, opens no
\* upstream socket and consumes no pending entry.
C11_SessionCap ==
  /\ [](Cardinality(SgwLive) <= DG_MAX_SESSIONS)
  /\ [][sgwDropped' # sgwDropped
          => /\ Cardinality(SgwLive) >= DG_MAX_SESSIONS
             /\ sgwSess' = sgwSess /\ sgwWs' = sgwWs
             /\ rtpSessions' = rtpSessions
             /\ pendingByDir' = pendingByDir]_vars
  /\ [][(Len(sgwSess') > Len(sgwSess))
          => /\ Cardinality(SgwLive) < DG_MAX_SESSIONS
             /\ Len(sgwWs') = Len(sgwWs) + 1]_vars

\* with cap 1: a packet was refused, the watchdog removed the first session
\* and a second SSRC then got its session
C11_Witness ==
  /\ DG_MAX_SESSIONS = 1 /\ sgwDropped = 1
  /\ Len(sgwSess) = 2
  /\ sgwSess[1].timer = "cleared" /\ rtpSessions[sgwSess[1].ssrc] = NoSess
  /\ sgwSess[2].ssrc # sgwSess[1].ssrc
  /\ rtpSessions[sgwSess[2].ssrc] = 2

\* the sockets of session s that closed outside a teardown
LostWs(s) == {w \in 1..Len(sgwWs) : sgwWs[w].sess = s /\ sgwWs[w].state = "lost"}

RoleModes == {"CALLER_IN", "AGENT_IN", "OTHER"}

\* the fields of a session that widgetSpeakerLabel reads
LabelSessions ==
  [dir : Dirs, callername : {"", "Bob"}, caller : {"", "600"}, exten : {"", "100"}]

\* lines 436-448 with the two directions of CALLER_IN in every mode
widgetSpeakerLabelNoMode(mode, sess) ==
  LET callerLabel == OrElse(sess.callername, OrElse(sess.caller, "Caller"))
      agentLabel  == OrElse(sess.exten, "Agent")
  IN IF sess.dir = "in" THEN callerLabel ELSE agentLabel

\* lines 436-448; mode is DG_ROLE_MODE
widgetSpeakerLabel(mode, sess) ==
  LET callerLabel == OrElse(sess.callername, OrElse(sess.caller, "Caller"))
      agentLabel  == OrElse(sess.exten, "Agent")
  IN IF mode = "AGENT_IN"
     THEN (IF sess.dir = "in" THEN agentLabel ELSE callerLabel)
     ELSE (IF sess.dir = "in" THEN callerLabel ELSE agentLabel)

CallWidgetSpeakerLabel(mode, sess) ==
  /\ fnCall' = [fn |-> "widgetSpeakerLabel", mode |-> mode, sess |-> sess,
                res |-> widgetSpeakerLabel(mode, sess)]
  /\ UNCHANGED notFnVars

(***************************************************************************)
(* Strings of URLs are sequences of pieces: "/", " " and runs of other     *)
(* characters.  The functions below look at slashes and blanks only, and   *)
(* every suffix they compare starts with "/", so two strings are compared  *)
(* piece by piece.                                                         *)
(***************************************************************************)
RECURSIVE DropTrailing(_, _)
\* s without its trailing pieces equal to c
DropTrailing(s, c) ==
  IF s # <<>> /\ s[Len(s)] = c THEN DropTrailing(SubSeq(s, 1, Len(s) - 1), c) ELSE s

RECURSIVE DropLeading(_, _)
DropLeading(s, c) ==
  IF s # <<>> /\ s[1] = c THEN DropLeading(Tail(s), c) ELSE s

\* String.prototype.trim
Trim(s) == DropLeading(DropTrailing(s, " "), " ")

\* String.prototype.endsWith
EndsWith(s, suffix) ==
  /\ Len(suffix) <= Len(s)
  /\ SubSeq(s, Len(s) - Len(suffix) + 1, Len(s)) = suffix

\* tap-service.js lines 125-127
stripSlashes(s) == DropLeading(DropTrailing(Trim(s), "/"), "/")

\* tap-service.js lines 129-131
stripTrailingSlash(s) == DropTrailing(Trim(s), "/")

\* tap-service.js lines 134-146
buildAriBaseUrl(rawBase, rawPrefix) ==
  LET base   == stripTrailingSlash(rawBase)
      prefix == stripSlashes(rawPrefix)
  IN IF prefix = <<>> THEN base
     ELSE IF EndsWith(base, <<"/">> \o prefix) THEN base
     ELSE base \o <<"/">> \o prefix

\* values of ARI_URL: http://host:8088 followed by nothing, slashes, or the
\* prefix with or without a slash
BaseUrls ==
  { <<"http:", "/", "/", "host:8088">> \o x :
      x \in { <<>>, <<"/">>, <<"/", "/">>, <<"/", "asterisk">>,
              <<"/", "asterisk", "/">>, <<"/", "ari">> } }

\* values of ASTERISK_HTTP_PREFIX
Prefixes ==
  { <<>>, <<"/">>, <<"asterisk">>, <<"/", "asterisk">>, <<"asterisk", "/">>,
    <<"/", "asterisk", "/">>, <<" ", "asterisk", " ">>, <<"asterisk", " ", "/">> }

\* buildAriBaseUrl, and buildAriBaseUrl again on its result
CallBuildAriBaseUrl(rawBase, rawPrefix) ==
  /\ fnCall' = [fn |-> "buildAriBaseUrl", rawBase |-> rawBase, rawPrefix |-> rawPrefix,
                res |-> buildAriBaseUrl(rawBase, rawPrefix),
                again |-> buildAriBaseUrl(buildAriBaseUrl(rawBase, rawPrefix), rawPrefix)]
  /\ UNCHANGED notFnVars

\* values of new URL(httpBase): protocol, host and pathname
HttpBases ==
  [protocol : {"http:", "https:"}, host : {"host:8088"},
   pathname : { <<"/">>, <<"/", "asterisk">>, <<"/", "asterisk", "/">>,
                <<"/", "pbx", "/", "asterisk">> }]

\* ari-client.js lines 27-49: the URL returned, by its parts
buildAriWsUrl(u, appName, user, pass) ==
  LET basePath == DropTrailing(u.pathname, "/")
  IN [ protocol |-> IF u.protocol = "https:" THEN "wss:" ELSE "ws:",
       host     |-> u.host,
       pathname |-> basePath \o <<"/", "ari", "/", "events">>,
       search   |-> [app |-> appName, api_key |-> <<user, ":", pass>>,
                     subscribeAll |-> "true"] ]

\* AriAdapter.start(appName) (ari-client.js lines 111-117)
CallBuildAriWsUrl(u) ==
  /\ fnCall' = [fn |-> "buildAriWsUrl", httpBase |-> u,
                res |-> buildAriWsUrl(u, "tap", "user", "pass")]
  /\ UNCHANGED notFnVars

\* the methods of AriAdapter.channels (ari-client.js lines 99-103)
AriChannelsMethods == {"snoopChannel", "externalMedia", "get"}

\* channel identifiers as pieces: a name holds "/", an id does not
ChanName == <<"PJSIP", "/", "100-00000001">>
ChanId   == <<"1700000000.1">>

\* the channels the control plane would list: none, or the one of that name
ChanLists == { <<>>, <<[id |-> ChanId, name |-> ChanName]>> }

\* outcomes of a request of the adapter (_requestJson, ari-client.js lines
\* 171-211): a 2xx answer, an error with statusCode, or a timeout
AriAnswers == {"ok", "404", "500", "timeout"}

Includes(s, c) == \E i \in 1..Len(s) : s[i] = c

\* String.prototype.startsWith, by pieces
StartsWith(s, prefix) ==
  /\ Len(prefix) <= Len(s)
  /\ SubSeq(s, 1, Len(prefix)) = prefix

\* tap-service.js lines 303-314: the calls made and the id returned, or the
\* error thrown
resolveAriChannelIdByName(channelName, chans) ==
  IF "list" \notin AriChannelsMethods
  THEN [calls |-> <<>>, threw |-> "TypeError", id |-> <<>>]   \* not a function
  ELSE LET exact == SelectSeq(chans, LAMBDA c : c.name = channelName)
           match == IF exact # <<>> THEN exact
                    ELSE SelectSeq(chans, LAMBDA c : StartsWith(c.name, channelName))
       IN IF match = <<>>
          THEN [calls |-> <<[op |-> "list"]>>, threw |-> "not found by name", id |-> <<>>]
          ELSE [calls |-> <<[op |-> "list"]>>, threw |-> "", id |-> match[1].id]

\* tap-service.js lines 316-331: r1 and r2 are the answers to the first and
\* to the second snoopChannel request
snoopChannelCompat(channelId, r1, chans, r2) ==
  LET first == <<[op |-> "snoopChannel", channelId |-> channelId]>>
      is404 == r1 = "404"
      looksLikeName == channelId # <<>> /\ Includes(channelId, "/")
  IN IF r1 = "ok" THEN [calls |-> first, threw |-> ""]
     ELSE IF ~is404 \/ ~looksLikeName THEN [calls |-> first, threw |-> r1]
     ELSE LET r == resolveAriChannelIdByName(channelId, chans)
          IN IF r.threw # "" THEN [calls |-> first \o r.calls, threw |-> r.threw]
             ELSE [calls |-> first \o r.calls
                               \o <<[op |-> "snoopChannel", channelId |-> r.id]>>,
                   threw |-> IF r2 = "ok" THEN "" ELSE r2]

CallSnoopChannelCompat(channelId, r1, chans, r2) ==
  /\ fnCall' = [fn |-> "snoopChannelCompat", channelId |-> channelId, r1 |-> r1,
                chans |-> chans, r2 |-> r2,
                res |-> snoopChannelCompat(channelId, r1, chans, r2)]
  /\ UNCHANGED notFnVars

FnNext ==
  \/ \E channelId \in {ChanName, ChanId}, r1 \in AriAnswers, chans \in ChanLists,
        r2 \in {"ok", "404"} : CallSnoopChannelCompat(channelId, r1, chans, r2)
  \/ \E mode \in RoleModes, sess \in LabelSessions : CallWidgetSpeakerLabel(mode, sess)
  \/ \E rawBase \in BaseUrls, rawPrefix \in Prefixes : CallBuildAriBaseUrl(rawBase, rawPrefix)
  \/ \E u \in HttpBases : CallBuildAriWsUrl(u)

SpecFn == InitOther /\ [][FnNext]_vars

\* C13: in role mode CALLER_IN the label of a session of direction in is its
\* callername, else its caller, else "Caller", and the label of a session of
\* direction out is its exten, else "Agent"; in role mode AGENT_IN the two
\* labels are exchanged between the directions.
C13_SpeakerLabel ==
  fnCall.fn = "widgetSpeakerLabel" /\ fnCall.mode \in {"CALLER_IN", "AGENT_IN"}
    => LET s == fnCall.sess
           callerLabel == IF s.callername # "" THEN s.callername
                          ELSE IF s.caller # "" THEN s.caller ELSE "Caller"
           agentLabel  == IF s.exten # "" THEN s.exten ELSE "Agent"
           callerSide  == IF fnCall.mode = "CALLER_IN" THEN "in" ELSE "out"
       IN fnCall.res = IF s.dir = callerSide THEN callerLabel ELSE agentLabel

\* AGENT_IN, direction out, no callername: the label is the caller number
C13_Witness ==
  /\ fnCall.fn = "widgetSpeakerLabel" /\ fnCall.mode = "AGENT_IN"
  /\ fnCall.sess.dir = "out" /\ fnCall.sess.callername = ""
  /\ fnCall.sess.caller = "600" /\ fnCall.res = "600"

\* C14: a ChannelHangupRequest for the tapped channel of a call that has a
\* live streaming tap session invokes cleanupSession for the call, which sets
\* the session's cleaned flag before anything else: so a session that was live
\* when the request of its tapped channel arrived is cleaned.
C14_OrigHangupCleans ==
  \A s \in 1..Len(tapSess) :
    (tapSess[s].gw = "deepgram" /\ tapSess[s].origHangup) => tapSess[s].cleaned

\* C15: a /register emits call-start exactly when the CallId had no
\* registration context when the request arrived or the request carries
\* force_start=1, and the event goes to the room of the context's extension;
\* nothing else emits call-start.  So a call whose registers carried no
\* force_start has exactly one call-start since its context was created.
C15_CallStart ==
  /\ [][\A u \in Uuids :
          LET emitted == callStart'[u].n = callStart[u].n + 1
              forced  == callStart'[u].forced = callStart[u].forced + 1
          IN IF callStart'[u].regs = callStart[u].regs + 1
             THEN /\ emitted <=> (~ctxByUuid[u].has \/ forced)
                  /\ ~emitted => callStart'[u].n = callStart[u].n
                  /\ emitted => callStart'[u].room = ctxByUuid'[u].exten
             ELSE callStart'[u].n <= callStart[u].n]_vars
  /\ [](\A u \in Uuids :
          (ctxByUuid[u].has /\ callStart[u].forced = 0) => callStart[u].n = 1)

\* the two registers of call A1, one per direction, without force_start: one
\* call-start, to room 100
C15_Witness ==
  /\ callStart["A1"].regs = 2 /\ callStart["A1"].forced = 0
  /\ callStart["A1"].n = 1 /\ callStart["A1"].room = "100"
  /\ ctxByUuid["A1"].exten = "100"
  /\ Len(pendingByDir["in"]) = 1 /\ Len(pendingByDir["out"]) = 1

\* C16: the event-stream URL of start(appName) has the scheme ws for http and
\* wss for https, the host and the path prefix of the REST base URL, and ends
\* in "/ari/events" for a base without prefix and in "/ws" for a base with a
\* prefix.
C16_WsEndpoint ==
  fnCall.fn = "buildAriWsUrl"
    => LET u      == fnCall.httpBase
           prefix == DropTrailing(u.pathname, "/")
       IN /\ fnCall.res.protocol = (IF u.protocol = "https:" THEN "wss:" ELSE "ws:")
          /\ fnCall.res.host = u.host
          /\ fnCall.res.pathname =
               prefix \o (IF prefix = <<>> THEN <<"/", "ari", "/", "events">>
                                           ELSE <<"/", "ws">>)

\* C17: buildAriBaseUrl returns the base without its trailing slashes when the
\* prefix is empty or the base already ends with "/" and the prefix, and
\* otherwise that base, "/" and the prefix; applied again to its result with
\* the same prefix it returns the same URL.
C17_PrefixNotDoubled ==
  fnCall.fn = "buildAriBaseUrl"
    => LET base   == stripTrailingSlash(fnCall.rawBase)
           prefix == stripSlashes(fnCall.rawPrefix)
       IN /\ fnCall.res = IF prefix = <<>> \/ EndsWith(base, <<"/">> \o prefix)
                          THEN base ELSE base \o <<"/">> \o prefix
          /\ fnCall.again = fnCall.res

\* C18: when the first snoopChannel fails with a 404 and the identifier holds
\* a "/", the channel list is fetched once and snoopChannel is called once
\* more, with the id of the listed channel of that name; after any other
\* failure, or for an identifier without "/", the only call is the first one
\* and its error is the one surfaced.
C18_SnoopByName ==
  fnCall.fn = "snoopChannelCompat" /\ fnCall.r1 # "ok"
    => IF fnCall.r1 = "404" /\ Includes(fnCall.channelId, "/")
       THEN /\ Len(fnCall.res.calls) >= 2
            /\ fnCall.res.calls[2] = [op |-> "list"]
            /\ fnCall.chans # <<>>
                 => /\ Len(fnCall.res.calls) = 3
                    /\ fnCall.res.calls[3] =
                         [op |-> "snoopChannel", channelId |-> fnCall.chans[1].id]
       ELSE /\ Len(fnCall.res.calls) = 1
            /\ fnCall.res.threw = fnCall.r1

\* the position of handler h in the handlers H ("none" before it started)
PcOf(H, h) == IF h \in 1..Len(H) THEN H[h].pc ELSE "none"

\* C19: in a step that starts from a state where session s has its cleaned
\* flag set, no snoop handler acquires anything for s: no bridge is created
\* for it, no port is allocated, no gateway /register and no external-media
\* request is sent, and no channel id is appended to its emIds.
C19_NoAcquireAfterCleaned ==
  [][\A s \in 1..Len(tapSess) :
       tapSess[s].cleaned
         => /\ \A b \in 1..Len(pbxBridges') :
                 b > Len(pbxBridges) => pbxBridges'[b].sess # s
            /\ tapSess'[s].emIds = tapSess[s].emIds
            /\ \A h \in 1..Len(tapHandlers') :
                 tapHandlers'[h].sess = s
                   => /\ (tapHandlers'[h].pc = "register"
                            => PcOf(tapHandlers, h) = "register")
                      /\ (tapHandlers'[h].pc = "emCreate"
                            => PcOf(tapHandlers, h) = "emCreate")
                      /\ (tapHandlers'[h].rtpPort # NoPort
                            => h <= Len(tapHandlers)
                               /\ tapHandlers[h].rtpPort = tapHandlers'[h].rtpPort)]_vars

(***************************************************************************)
(* C20: framed gateway: a terminal event that belongs to one session (its  *)
(* TCP error, TCP close, UDP error or watchdog tick) never ends, closes or *)
(* removes a different session.  A step in which the TCP socket of session *)
(* i becomes errored or closed, or in which session i becomes ended while  *)
(* no HTTP request changes the table, leaves every other session object    *)
(* and its table entry as they were; in particular the close event of an   *)
(* old session of port p leaves a new session registered on p in the table *)
(* with its UDP socket open.                                               *)
(***************************************************************************)
OtherFgwSessionsKept(i) ==
  \A j \in 1..Len(fgwSess) :
     j # i => /\ fgwSess'[j] = fgwSess[j]
              /\ \A p \in Ports : sessionsByPort[p] = j => sessionsByPort'[p] = j

C20_TerminalEventOwnSession ==
  [][\A i \in 1..Len(fgwSess) :
        /\ Len(fgwSess') = Len(fgwSess)
        /\ \/ /\ fgwSess'[i].tcp # fgwSess[i].tcp
              /\ fgwSess'[i].tcp \in {"errored", "closed"}
           \/ /\ fgwSess'[i].ended /\ ~fgwSess[i].ended
              /\ sessionsByPort' = sessionsByPort
        => OtherFgwSessionsKept(i)]_vars

(***************************************************************************)
(* C21: framed gateway: every terminal event of a session leads to         *)
(* cleanupSession for its port, after which the session is absent from the *)
(* session table, its UDP socket is closed and no inactivity timer of that *)
(* session is running, including when the TCP connect completes after the  *)
(* session was already cleaned up.  Only cleanupSession closes the UDP     *)
(* socket, so a session with a closed UDP socket is one that was cleaned   *)
(* up: it is in no table entry and its timer is not running.               *)
(***************************************************************************)
C21_CleanedSessionQuiet ==
  \A i \in 1..Len(fgwSess) :
     fgwSess[i].udp = "closed" =>
        /\ \A p \in Ports : sessionsByPort[p] # i
        /\ fgwSess[i].inactivityTimer # "running"

(***************************************************************************)
(* Framed gateway: the runs of the inactivity watchdog.  One session; the  *)
(* timer that is running fires again and again, a started connect          *)
(* completes, and a TCP socket whose end() was called is closed.  Nothing  *)
(* else is taken for granted: the peer may keep a healthy socket open for  *)
(* ever.                                                                   *)
(***************************************************************************)
MaxWdSessions == 1       \* session objects in the runs of the watchdog

WdNext ==
  \/ \E port \in Ports \cup {NoPort}, uuid \in FgwUuids \cup {NoUuid}, meta \in Metas :
        HttpRegister(port, uuid, meta) /\ Len(fgwSess') <= MaxWdSessions
  \/ \E port \in Ports \cup {NoPort} : HttpUnregister(port)
  \/ \E i \in 1..Len(fgwSess) : TcpConnect(i)
  \/ \E i \in 1..Len(fgwSess) : TcpError(i)
  \/ \E i \in 1..Len(fgwSess) : TcpClose(i)
  \/ \E i \in 1..Len(fgwSess), d \in Datagrams : UdpMessage(i, d)
  \/ \E i \in 1..Len(fgwSess) : UdpError(i)
  \/ \E i \in 1..Len(fgwSess) : WatchdogTick(i)
  \/ Tick

WdFair ==
  \A i \in 1..MaxWdSessions :
     /\ WF_vars(i <= Len(fgwSess) /\ WatchdogTick(i))
     /\ WF_vars(i <= Len(fgwSess) /\ TcpConnect(i))
     /\ WF_vars(i <= Len(fgwSess) /\ fgwSess[i].tcpEnded /\ TcpClose(i))

SpecWd == InitOther /\ [][WdNext]_vars /\ WdFair

InTable(i) == \E p \in Ports : sessionsByPort[p] = i

Breach(i) ==
  /\ i <= Len(fgwSess)
  /\ fgwSess[i].connected /\ ~fgwSess[i].ended
  /\ now - fgwSess[i].lastRtpMs > INACTIVITY_MS

StepRank(e) ==
  CASE e[1] \in {"unregister", "freePort", "dgUnregister"} -> 1
    [] e[1] = "destroy" -> 2
    [] e[1] \in {"hangup", "gone"} /\ pbxChans[e[2]].kind = "snoop" -> 3
    [] e[1] \in {"hangup", "gone"} /\ pbxChans[e[2]].kind = "em" -> 4
    [] OTHER -> 5

\* the snoop channels bound to the call of session s: those whose handler
\* ran for s
SnoopsOf(s) ==
  {tapHandlers[h].ch : h \in {k \in 1..Len(tapHandlers) : tapHandlers[k].sess = s}}

(***************************************************************************)
(* C23: tap orchestrator: cleanupSession of a live session of either       *)
(* backend performs its steps in this order: gateway unregister (framed:   *)
(* /unregister of each registered port and then the free of that port;     *)
(* streaming: /unregister?uuid), destroy of every bridge, hangup of every  *)
(* snoop channel bound to the call (both snoops of a streaming session),   *)
(* hangup of every external-media channel, removal of the reverse-index    *)
(* entries and of the session.  So the steps performed on a session are in *)
(* that order, a port is freed right after its /unregister, and every      *)
(* snoop channel bound to the call of a cleanup run is a channel that run  *)
(* hangs up.                                                               *)
(***************************************************************************)
C23_CleanupOrder ==
  /\ \A s \in 1..Len(tapSess) :
        LET e == tapSess[s].effects
        IN /\ \A i, j \in 1..Len(e) : i < j => StepRank(e[i]) <= StepRank(e[j])
           /\ \A j \in 1..Len(e) :
                 e[j][1] = "freePort" => j > 1 /\ e[j - 1] = <<"unregister", e[j][2]>>
  /\ \A c \in 1..Len(tapCleanups) :
        \A ch \in SnoopsOf(tapCleanups[c].sess) : tapCleanups[c].snoopId = ch

\* the channels mapped to the call during the life of session s: the snoop
\* channels of its handlers and the external-media channels they pushed
ChansOf(s) ==
  SnoopsOf(s) \cup {tapSess[s].emIds[j] : j \in 1..Len(tapSess[s].emIds)}

(***************************************************************************)
(* C24: tap orchestrator: after cleanupSession for a CallId has completed, *)
(* the reverse index (channel id to CallId) has no entry whose value is    *)
(* that CallId, for sessions of both backends and for every snoop and      *)
(* external-media channel that was mapped during the session's life.       *)
(***************************************************************************)
C24_ReverseIndexPurged ==
  \A c \in 1..Len(tapCleanups) :
     tapCleanups[c].pc = "done" =>
        \A ch \in ChansOf(tapCleanups[c].sess) :
           ~(ch \in DOMAIN chan2uuid /\ chan2uuid[ch] = tapCleanups[c].uuid)

(***************************************************************************)
(* C25: tap orchestrator, framed backend: whenever the /register request   *)
(* to the framed gateway does not succeed for an allocated port (non-200   *)
(* response, transport error or timeout), the port is removed from the     *)
(* allocated-port set and the tap for the call is abandoned: no            *)
(* external-media channel is created.  A step in which a framed handler    *)
(* that waits for the answer to /register fails leaves its port out of     *)
(* usedPorts and creates no channel.                                       *)
(***************************************************************************)
C25_RegisterFailFreesPort ==
  [][\A h \in 1..Len(tapHandlers) :
       (/\ tapHandlers[h].gw = "mti"
        /\ tapHandlers[h].pc = "register"
        /\ tapHandlers'[h].pc = "failed")
         => /\ tapHandlers[h].rtpPort \notin usedPorts'
            /\ pbxChans' = pbxChans]_vars

(***************************************************************************)
(* C26: tap orchestrator, framed backend: if, after a successful /register *)
(* of port p at the framed gateway, the external-media creation fails or   *)
(* adding the external-media channel to the bridge fails, the resulting    *)
(* cleanup sends /unregister for p to the framed gateway and removes p     *)
(* from the allocated-port set; in every state with no live session no     *)
(* port remains allocated.  A framed handler that failed after its         *)
(* external-media channel was created had its register answered 200: once  *)
(* the cleanup run of its session is over, its port was unregistered and   *)
(* is not allocated; and when no session is live and every handler is over *)
(* (none of them having failed before its channel was created), no port is *)
(* allocated.                                                              *)
(***************************************************************************)
C26_FailedEmReleasesPort ==
  /\ \A c \in 1..Len(tapCleanups) :
        tapCleanups[c].pc = "done" =>
           \A h \in 1..Len(tapHandlers) :
              (/\ tapHandlers[h].sess = tapCleanups[c].sess
               /\ tapHandlers[h].gw = "mti"
               /\ tapHandlers[h].pc = "failed"
               /\ tapHandlers[h].em # 0)
                => /\ tapHandlers[h].rtpPort \notin usedPorts
                   /\ \E j \in 1..Len(tapSess[tapHandlers[h].sess].effects) :
                         tapSess[tapHandlers[h].sess].effects[j]
                            = <<"unregister", tapHandlers[h].rtpPort>>
  /\ ((\A u \in Uuids : sessions[u] = NoSess)
      /\ (\A h \in 1..Len(tapHandlers) :
             /\ tapHandlers[h].pc \in {"done", "failed"}
             /\ tapHandlers[h].gw = "mti" /\ tapHandlers[h].pc = "failed"
                   => tapHandlers[h].em # 0))
        => usedPorts = {}

\* the external-media channels that the handlers of session s created
EmsCreatedFor(s) ==
  {tapHandlers[h].em : h \in {k \in 1..Len(tapHandlers) :
                                 tapHandlers[k].sess = s /\ tapHandlers[k].em # 0}}

(***************************************************************************)
(* C27: tap orchestrator: every external-media channel that the            *)
(* orchestrator created for a call is hung up by that call's cleanup,      *)
(* including a channel whose add-to-bridge failed and a channel created by *)
(* a handler that was still running while cleanupSession executed.  Once a *)
(* session's cleanup run and its handlers are over, the run has asked the  *)
(* PBX for every external-media channel created for the session, and has   *)
(* hung it up or found it gone.                                            *)
(***************************************************************************)
C27_EveryEmHungUp ==
  \A c \in 1..Len(tapCleanups) :
     (/\ tapCleanups[c].pc = "done"
      /\ \A h \in 1..Len(tapHandlers) :
            tapHandlers[h].sess = tapCleanups[c].sess
               => tapHandlers[h].pc \in {"done", "failed"})
       => \A em \in EmsCreatedFor(tapCleanups[c].sess) :
             \E j \in 1..Len(tapSess[tapCleanups[c].sess].effects) :
                \/ tapSess[tapCleanups[c].sess].effects[j] = <<"hangup", em>>
                \/ tapSess[tapCleanups[c].sess].effects[j] = <<"gone", em>>

(***************************************************************************)
(* C28: tap orchestrator, single-flight failure: when the bridge creation  *)
(* started by getOrCreateBridgeDir for a direction fails, the in-flight    *)
(* slot (bridgePromises[dir]) of that session is cleared, so that a later  *)
(* call of getOrCreateBridgeDir for the same session and direction starts  *)
(* a new creation instead of receiving the failed one.  No slot holds a    *)
(* rejected creation, and a streaming handler that starts for a session    *)
(* with no bridge and no creation in flight for its direction creates a    *)
(* bridge.                                                                 *)
(***************************************************************************)
C28_FailedCreationClearsSlot ==
  /\ [](\A s \in 1..Len(tapSess), d \in Dirs : tapSess[s].bridgePromises[d] # "rejected")
  /\ [][\A h \in 1..Len(tapHandlers') :
          (/\ h > Len(tapHandlers)
           /\ tapHandlers'[h].gw = "deepgram"
           /\ tapHandlers'[h].sess <= Len(tapSess)
           /\ tapSess[tapHandlers'[h].sess].bridges[tapHandlers'[h].dir] = 0
           /\ tapSess[tapHandlers'[h].sess].bridgePromises[tapHandlers'[h].dir] # "pending")
            => /\ Len(pbxBridges') = Len(pbxBridges) + 1
               /\ tapHandlers'[h].pc = "createBridge"]_vars

RegisterAnswers == {"200", "non200", "error"}

(***************************************************************************)
(* C29: tap orchestrator: for every external-media channel created, the    *)
(* gateway registration request was issued and its outcome received before *)
(* the external-media request is sent (framed: /register of the allocated  *)
(* port answered 200; streaming: /register of that direction answered or   *)
(* failed), and in the streaming backend a failed or rejected register     *)
(* does not prevent the external-media channel from being created.  An     *)
(* external-media channel appears only as the answer to the request of a   *)
(* handler, a handler sends that request only in the step that receives    *)
(* the outcome of its /register, a framed handler only on a 200, and a     *)
(* streaming handler on every outcome.                                     *)
(***************************************************************************)
C29_RegisterBeforeEm ==
  /\ [][\A ch \in 1..Len(pbxChans') :
          (ch > Len(pbxChans) /\ pbxChans'[ch].kind = "em")
            => \E h \in 1..Len(tapHandlers) :
                  /\ tapHandlers[h].pc = "emCreate"
                  /\ tapHandlers'[h].em = ch
                  /\ pbxChans'[ch].uuid = tapHandlers[h].uuid
                  /\ pbxChans'[ch].dir = tapHandlers[h].dir]_vars
  /\ [][\A h \in 1..Len(tapHandlers) :
          (tapHandlers'[h].pc = "emCreate" /\ tapHandlers[h].pc # "emCreate")
            => /\ tapHandlers[h].pc = "register"
               /\ tapHandlers[h].gw = "mti" => tapHandlers[h].rtpPort \in usedPorts]_vars
  /\ [][\A h \in 1..Len(tapHandlers), res \in RegisterAnswers :
          RegisterDone(h, res)
            => IF tapHandlers[h].gw = "mti" /\ res # "200"
               THEN tapHandlers'[h].pc = "failed"
               ELSE tapHandlers'[h].pc = "emCreate"]_vars

C29_Witness ==
  \E h \in 1..Len(tapHandlers) :
     /\ tapHandlers[h].gw = "deepgram" /\ tapHandlers[h].pc = "done"
     /\ tapHandlers[h].em # 0 /\ pbxChans[tapHandlers[h].em].kind = "em"
     /\ pbxChans[tapHandlers[h].em].dir = tapHandlers[h].dir
     /\ \E j \in 1..Len(tapSess[tapHandlers[h].sess].emIds) :
           tapSess[tapHandlers[h].sess].emIds[j] = tapHandlers[h].em

(***************************************************************************)
(* Tap orchestrator: the StasisStart listener with its filter (lines       *)
(* 698-733).  fnCall records the event the listener was called with.       *)
(***************************************************************************)
MaxStEvents == 2         \* StasisStart events in the runs of the listener
MaxStStarts == 1         \* snoop handlers in the runs of the listener

TAP_APP_NAME == "tap"                     \* the configured application name

\* channel names by pieces: the prefix up to "/" and the rest
EmPrefix == <<"UnicastRTP/">>
StasisNames ==
  { <<"Snoop/", "1700000000.1">>,
    <<"UnicastRTP/", "10.0.0.5:41000">>,
    <<"PJSIP/", "UnicastRTP/">>,
    <<>> }                                 \* ch.name undefined

\* application, args[1] and ch.name of a StasisStart event
StasisEvents ==
  [ application : {TAP_APP_NAME, "other"}, arg1 : {"", "snoop", "em"},
    name : StasisNames ]

\* const role = args[1] || 'snoop'
roleOf(arg1) == IF arg1 = "" THEN "snoop" ELSE arg1

\* the filter with the test of the application only
stasisStartIgnoredAppOnly(evt) ==
  evt.application # TAP_APP_NAME

\* lines 699 and 712: the event is not handled
stasisStartIgnored(evt) ==
  \/ evt.application # TAP_APP_NAME
  \/ roleOf(evt.arg1) = "em" \/ StartsWith(evt.name, EmPrefix)

StasisStart(evt, a) ==
  /\ LET n == IF fnCall.fn = "StasisStart" THEN fnCall.n ELSE 0
     IN /\ n < MaxStEvents
        /\ fnCall' = [fn |-> "StasisStart", evt |-> evt, n |-> n + 1]
  /\ IF stasisStartIgnored(evt)
     THEN UNCHANGED tapVars
     ELSE /\ Len(tapHandlers) < MaxStStarts
          /\ TapSet(handleSnoop([TapSt EXCEPT !.C = Append(@, NewChan("snoop", a.uuid, a.dir))],
                                a, Len(pbxChans) + 1))
          /\ UNCHANGED pbxNotFound
  /\ UNCHANGED <<now, fgwVars, sgwVars, genVars>>

StNext ==
  \/ \E evt \in StasisEvents, a \in TapStarts : StasisStart(evt, a)
  \/ \E h \in 1..Len(tapHandlers), ok \in BOOLEAN : BridgeCreateDone(h, ok)
  \/ \E h \in 1..Len(tapHandlers), ok \in BOOLEAN, p \in (RTP_START..RTP_END) \cup {NoPort} :
        SnoopAddDone(h, ok, p)
  \/ \E h \in 1..Len(tapHandlers), res \in RegisterAnswers : RegisterDone(h, res)
  \/ \E h \in 1..Len(tapHandlers), ok \in BOOLEAN : EmCreateDone(h, ok)
  \/ \E h \in 1..Len(tapHandlers), res \in {"ok", "notfound", "fatal"} : EmAddDone(h, res, MaxNotFound)
  \/ \E h \in 1..Len(tapHandlers) : EmDelayDone(h)
  \/ \E ch \in (1..Len(pbxChans)) \cup {OrigChan} : ChannelHangupRequest(ch)
  \/ \E ch \in 1..Len(pbxChans) : StasisEnd(ch)
  \/ \E c \in 1..Len(tapCleanups), ok \in BOOLEAN : CleanupStep(c, ok)

SpecSt == InitOther /\ [][StNext]_vars

(***************************************************************************)
(* C30: tap orchestrator: a StasisStart event whose application differs    *)
(* from the configured name, or whose role argument is "em", or whose      *)
(* channel name starts with "UnicastRTP/", leaves the session table, the   *)
(* reverse index, the allocated-port set and the PBX resources unchanged   *)
(* (no session, bridge, port or external-media channel is created), so an  *)
(* external-media channel entering the application never starts another    *)
(* pipeline.                                                               *)
(***************************************************************************)
C30_IgnoredStasisStart ==
  [][(/\ fnCall' # fnCall
      /\ fnCall'.fn = "StasisStart"
      /\ \/ fnCall'.evt.application # "tap"
         \/ fnCall'.evt.arg1 = "em"
         \/ (fnCall'.evt.name # <<>> /\ fnCall'.evt.name[1] = "UnicastRTP/"))
       => UNCHANGED <<tapSess, sessions, chan2uuid, usedPorts, stasisEndSubs,
                      tapHandlers, tapCleanups, pbxBridges, pbxChans>>]_vars

C30_Witness ==
  /\ fnCall.fn = "StasisStart" /\ fnCall.n = 2
  /\ fnCall.evt = [application |-> "tap", arg1 |-> "em",
                   name |-> <<"UnicastRTP/", "10.0.0.5:41000">>]
  /\ Len(tapHandlers) = 1 /\ tapHandlers[1].pc = "done"
  /\ Len(pbxChans) = 2 /\ pbxChans[2].kind = "em"
  /\ Len(tapSess) = 1 /\ Len(pbxBridges) = 1

(***************************************************************************)
(* Tap orchestrator: the runs of addToBridgeWithRetry.  One snoop          *)
(* pipeline, and a PBX that may answer "not found" to every addChannel.    *)
(***************************************************************************)
MaxRetryStarts   == 1    \* snoop handlers in the runs of the retry loop
MaxRetryNotFound == 13   \* "not found" answers in the runs of the retry loop

RetryNext ==
  \/ \E a \in TapStarts : StasisStartSnoop(a) /\ Len(tapHandlers') <= MaxRetryStarts
  \/ \E h \in 1..Len(tapHandlers), ok \in BOOLEAN : BridgeCreateDone(h, ok)
  \/ \E h \in 1..Len(tapHandlers), ok \in BOOLEAN, p \in (RTP_START..RTP_END) \cup {NoPort} :
        SnoopAddDone(h, ok, p)
  \/ \E h \in 1..Len(tapHandlers), res \in RegisterAnswers : RegisterDone(h, res)
  \/ \E h \in 1..Len(tapHandlers), ok \in BOOLEAN : EmCreateDone(h, ok)
  \/ \E h \in 1..Len(tapHandlers), res \in {"ok", "notfound", "fatal"} :
        EmAddDone(h, res, MaxRetryNotFound)
  \/ \E h \in 1..Len(tapHandlers) : EmDelayDone(h)
  \/ \E ch \in (1..Len(pbxChans)) \cup {OrigChan} : ChannelHangupRequest(ch)
  \/ \E ch \in 1..Len(pbxChans) : StasisEnd(ch)
  \/ \E c \in 1..Len(tapCleanups), ok \in BOOLEAN : CleanupStep(c, ok)

SpecRetry == InitOther /\ [][RetryNext]_vars

(***************************************************************************)
(* C31: addToBridgeWithRetry terminates after at most 12 addChannel        *)
(* attempts: it returns success at the first attempt that succeeds,        *)
(* rethrows at once the first error whose message does not hold "not       *)
(* found" without further attempts, and throws a not-found error after 12  *)
(* consecutive "not found" failures; the failure in both cases reaches the *)
(* StasisStart handler and triggers cleanupSession for the call, which     *)
(* acts on the session stored for the call.  tries is the number of failed *)
(* attempts of a handler, so the attempt it waits for is number tries + 1. *)
(***************************************************************************)
C31_AddRetryBounded ==
  /\ [](\A h \in 1..Len(tapHandlers) :
          tapHandlers[h].pc \in {"emAdd", "emDelay"} => tapHandlers[h].tries + 1 <= 12)
  /\ [][\A h \in 1..Len(tapHandlers) :
          LET hr == tapHandlers[h]
              hn == tapHandlers'[h]
          IN /\ EmAddDone(h, "ok", MaxRetryNotFound) => hn.pc = "done" /\ hn.em = hr.em
             /\ EmAddDone(h, "fatal", MaxRetryNotFound)
                  => /\ hn.pc = "failed" /\ hn.tries = hr.tries
                     /\ sessions[hr.uuid] # NoSess => tapSess'[sessions[hr.uuid]].cleaned
             /\ EmAddDone(h, "notfound", MaxRetryNotFound)
                  => hn.pc = "emDelay" /\ hn.tries = hr.tries
             /\ (hr.pc = "emDelay" /\ hn.pc = "emAdd") => hn.tries = hr.tries + 1
             /\ (hr.pc = "emDelay" /\ hn.pc = "failed")
                  => /\ hr.tries + 1 = 12
                     /\ pbxNotFound >= 12
                     /\ sessions[hr.uuid] # NoSess => tapSess'[sessions[hr.uuid]].cleaned
             /\ (hr.pc = "emDelay" /\ EmDelayDone(h)) => hn.pc \in {"emAdd", "failed"}]_vars

C31_Witness ==
  /\ Len(tapHandlers) = 1
  /\ tapHandlers[1].pc = "failed" /\ tapHandlers[1].tries = 11
  /\ tapHandlers[1].em # 0
  /\ pbxNotFound = 12
  /\ tapSess[tapHandlers[1].sess].cleaned

\* handler h holds its port: it allocated one and has neither failed nor had
\* the port freed by the cleanup of its session
HoldsPort(h) ==
  /\ tapHandlers[h].rtpPort # NoPort
  /\ tapHandlers[h].pc # "failed"
  /\ \A j \in 1..Len(tapSess[tapHandlers[h].sess].effects) :
        tapSess[tapHandlers[h].sess].effects[j] # <<"freePort", tapHandlers[h].rtpPort>>

(***************************************************************************)
(* C32: tap orchestrator port pool: allocPort returns either a port p with *)
(* RTP_START <= p <= RTP_END that was not in the allocated set and is      *)
(* added to it, or null after exactly RTP_END - RTP_START + 1 draws that   *)
(* all hit allocated ports; over any sequence of allocPort and freePort no *)
(* port is handed to two holders at once and the allocated set stays       *)
(* within the range.                                                       *)
(***************************************************************************)
C32_PortPool ==
  /\ [](\A draws \in DrawSeqs :
          LET r == allocPortOf(usedPorts, draws)
          IN IF r.res # NoPort
             THEN /\ r.res \in (RTP_START..RTP_END) \ usedPorts
                  /\ r.res = draws[r.n]
                  /\ \A i \in 1..(r.n - 1) : draws[i] \in usedPorts
             ELSE /\ r.n = RTP_END - RTP_START + 1
                  /\ \A i \in 1..r.n : draws[i] \in usedPorts)
  /\ [](usedPorts \subseteq RTP_START..RTP_END)
  /\ [](\A h \in 1..Len(tapHandlers) :
          HoldsPort(h) =>
             /\ tapHandlers[h].rtpPort \in usedPorts
             /\ \A k \in 1..Len(tapHandlers) :
                   (k # h /\ HoldsPort(k)) => tapHandlers[k].rtpPort # tapHandlers[h].rtpPort)
  /\ [][\A h \in 1..Len(tapHandlers) :
          (tapHandlers[h].rtpPort = NoPort /\ tapHandlers'[h].rtpPort # NoPort)
            => /\ tapHandlers'[h].rtpPort \in (RTP_START..RTP_END) \ usedPorts
               /\ usedPorts' = usedPorts \cup {tapHandlers'[h].rtpPort}]_vars

C32_Witness ==
  /\ usedPorts = RTP_START..RTP_END
  /\ Len(tapHandlers) = 2
  /\ HoldsPort(1) /\ HoldsPort(2)
  /\ tapHandlers[1].rtpPort # tapHandlers[2].rtpPort
  /\ \A draws \in DrawSeqs : allocPortOf(usedPorts, draws).res = NoPort

(***************************************************************************)
(* C33: streaming gateway: a reconnect timer opens a new upstream socket   *)
(* only if the session that scheduled it is still the session stored in    *)
(* the session table; no socket is opened for, or left attached to, a      *)
(* session that the watchdog has torn down, also when a new session with   *)
(* the same SSRC was created in the meantime; the close of a deliberate    *)
(* teardown schedules no reconnect.                                        *)
(***************************************************************************)
C33_ReconnectOwnSession ==
  /\ [][\A w \in (Len(sgwWs) + 1)..Len(sgwWs') :
          rtpSessions'[sgwSess'[sgwWs'[w].sess].ssrc] = sgwWs'[w].sess]_vars
  /\ [](\A w \in 1..Len(sgwWs) :
          sgwWs[w].state \in {"connecting", "open"} => ~sgwSess[sgwWs[w].sess].closing)
  /\ [][\A tm \in sgwTimers' \ sgwTimers : ~sgwSess[tm.sess].closing]_vars

\* session s is in the gap after a non-deliberate close of its upstream
\* socket: a reconnect was scheduled and its current socket is not OPEN
InGap(s) == sgwSess[s].reconnects > 0 /\ sgwWs[sgwSess[s].ws].state # "open"

(***************************************************************************)
(* C34: streaming gateway: PCM payloads that arrive for a session between  *)
(* a non-deliberate close of its upstream socket and the next OPEN are     *)
(* dropped and are not sent upstream after the reconnect: they are not put *)
(* in the boot buffer, so the next OPEN replays only frames buffered       *)
(* before the first OPEN.                                                  *)
(***************************************************************************)
C34_GapPayloadsDropped ==
  [][\A s \in 1..Len(sgwSess) :
       InGap(s) => /\ Len(sgwSess'[s].boot) <= Len(sgwSess[s].boot)
                   /\ \A w \in 1..Len(sgwWs) :
                         (sgwWs[w].sess = s /\ sgwWs'[w].state = "open")
                           => \A i \in 1..Len(sgwWs'[w].sent) :
                                 \/ i <= Len(sgwWs[w].sent) /\ sgwWs'[w].sent[i] = sgwWs[w].sent[i]
                                 \/ \E j \in 1..Len(sgwSess[s].boot) :
                                       sgwSess[s].boot[j] = sgwWs'[w].sent[i]]_vars

\* the payloads written upstream so far for SSRC x, on any socket
SentOf(x) ==
  UNION { {sgwWs[w].sent[i] : i \in 1..Len(sgwWs[w].sent)} :
          w \in {v \in 1..Len(sgwWs) : sgwSess[sgwWs[v].sess].ssrc = x} }

(***************************************************************************)
(* C35: streaming gateway: within one session the boot buffer never holds  *)
(* more than 50 payloads; payloads that arrive while it is full and the    *)
(* socket is not OPEN are discarded; on OPEN the buffered payloads are     *)
(* sent in arrival order before any payload that arrives after OPEN and    *)
(* the buffer is then empty; the payloads written upstream for one SSRC    *)
(* always form a subsequence of that SSRC's arrival order (payloads are    *)
(* numbered by arrival).                                                   *)
(***************************************************************************)
C35_BootBufferOrder ==
  /\ [](\A s \in 1..Len(sgwSess) : Len(sgwSess[s].boot) <= BOOT_FRAMES)
  /\ [][\A s \in 1..Len(sgwSess) :
          (Len(sgwSess[s].boot) = BOOT_FRAMES /\ sgwWs[sgwSess[s].ws].state # "open")
            => sgwSess'[s].boot = sgwSess[s].boot \/ sgwSess'[s].boot = <<>>]_vars
  /\ [][\A w \in 1..Len(sgwWs) :
          (sgwWs[w].state # "open" /\ sgwWs'[w].state = "open")
            => /\ sgwWs'[w].sent = sgwWs[w].sent \o sgwSess[sgwWs[w].sess].boot
               /\ sgwSess'[sgwWs[w].sess].boot = <<>>]_vars
  /\ [][\A w \in 1..Len(sgwWs) :
          \A i \in (Len(sgwWs[w].sent) + 1)..Len(sgwWs'[w].sent) :
             /\ \A q \in SentOf(sgwSess[sgwWs[w].sess].ssrc) : q < sgwWs'[w].sent[i]
             /\ i > 1 => sgwWs'[w].sent[i - 1] < sgwWs'[w].sent[i]]_vars

MaxSwdRegs  == 2         \* /register requests in the runs of the streaming watchdog
MaxSwdItems == 1         \* final transcripts per conversation in these runs

\* the streaming watchdog: two directions of one call, their sessions, final
\* transcripts and the teardown
SwdNext ==
  \/ \E q \in {r \in RegQueries : r.uuid = "A1" /\ r.exten = "100" /\ r.force = ""} :
        SgwRegister(q, MaxSwdRegs)
  \/ \E dir \in Dirs, k \in {x \in SgwPackets : x.d.len = 340} : RtpMessage(dir, k)
  \/ \E w \in 1..Len(sgwWs) : WsOpen(w)
  \/ \E w \in 1..Len(sgwWs), len \in TextLens : WsFinal(w, len, MaxSwdItems)
  \/ \E w \in 1..Len(sgwWs) : sgwWs[w].state = "closing" /\ WsClose(w, 0, MaxSgwWs)
  \/ \E s \in 1..Len(sgwSess) : SgwWatchdog(s)
  \/ SgwTick

\* the interval of a session keeps firing (setInterval, line 785)
SwdFair ==
  \A s \in 1..MaxSgwSessions : WF_vars(s <= Len(sgwSess) /\ SgwWatchdog(s))

SpecSwd == InitOther /\ [][SwdNext]_vars /\ SwdFair

\* session s is watched and silent for more than INACT_MS
SgwBreach(s) ==
  /\ s <= Len(sgwSess)
  /\ sgwSess[s].timer = "running"
  /\ now - sgwSess[s].last > INACT_MS

(***************************************************************************)
(* C36: streaming gateway watchdog: a session that receives no RTP is      *)
(* removed at the first watchdog tick at which now minus last-RTP exceeds  *)
(* 8000 ms: its closing flag is set before its socket is closed (the close *)
(* schedules no reconnect), its watchdog timer is cleared, it is deleted   *)
(* from the session table, and the conversation of its CallId is dropped   *)
(* exactly when no other session with the same CallId remains; a session   *)
(* with RTP newer than 8000 ms is never removed.                           *)
(***************************************************************************)
C36_SgwWatchdog ==
  /\ [][\A s \in 1..Len(sgwSess) :
          (rtpSessions[sgwSess[s].ssrc] = s /\ rtpSessions'[sgwSess[s].ssrc] # s)
            => /\ now - sgwSess[s].last > INACT_MS
               /\ sgwSess'[s].closing
               /\ sgwSess'[s].timer = "cleared"
               /\ rtpSessions'[sgwSess[s].ssrc] = NoSess
               /\ sgwWs'[sgwSess[s].ws].state \notin {"connecting", "open"}
               /\ LET others == \E x \in Ssrcs :
                                   /\ rtpSessions'[x] # NoSess
                                   /\ sgwSess[rtpSessions'[x]].uuid = sgwSess[s].uuid
                  IN IF others
                     THEN genConvs' = genConvs
                     ELSE /\ ConvOf(genConvs', sgwSess[s].uuid) = 0
                          /\ \A i \in 1..Len(genConvs) :
                                genConvs[i].uuid # sgwSess[s].uuid
                                  => genConvs'[i] = genConvs[i]]_vars
  /\ [](\A w \in 1..Len(sgwWs) :
          sgwWs[w].state \in {"closing", "closed"} => sgwSess[sgwWs[w].sess].closing)
  /\ [](sgwTimers = {})
  /\ [](\A s \in 1..Len(sgwSess) :
          sgwSess[s].timer = "running" <=> rtpSessions[sgwSess[s].ssrc] = s)
  /\ \A s \in 1..MaxSgwSessions :
        SgwBreach(s) ~> /\ s <= Len(sgwSess)
                        /\ \/ sgwSess[s].timer = "cleared"
                           \/ now - sgwSess[s].last <= INACT_MS

C36_Witness ==
  /\ Len(sgwSess) = 2
  /\ \A s \in 1..2 : /\ sgwSess[s].uuid = "A1"
                     /\ sgwSess[s].closing
                     /\ sgwSess[s].timer = "cleared"
                     /\ sgwSess[s].last = 0
                     /\ sgwWs[sgwSess[s].ws].state = "closed"
  /\ \A x \in Ssrcs : rtpSessions[x] = NoSess
  /\ now = INACT_MS + SgwTickMs
  /\ Len(genConvs) = 1
  /\ genConvs[1].uuid = "A1" /\ ~genConvs[1].live /\ genConvs[1].items # <<>>

(***************************************************************************)
(* C37: streaming gateway: audio that arrives on a direction's UDP port is *)
(* delivered only to a session whose direction is that port's direction:   *)
(* when the same SSRC value is seen on both the IN and the OUT port, a     *)
(* payload from the OUT port is never written to the upstream socket of,   *)
(* or buffered for, a session created from the IN port, and vice versa.    *)
(***************************************************************************)
C37_DirectionOfPort ==
  [][\A dir \in Dirs, k \in SgwPackets :
       RtpMessage(dir, k) =>
          /\ \A s \in 1..Len(sgwSess') :
                \/ sgwSess'[s].dir = dir
                \/ s <= Len(sgwSess) /\ sgwSess'[s] = sgwSess[s]
          /\ \A w \in 1..Len(sgwWs') :
                \/ sgwSess'[sgwWs'[w].sess].dir = dir
                \/ w <= Len(sgwWs) /\ sgwWs'[w] = sgwWs[w]]_vars

MaxGenItems  == 3        \* items per conversation in the runs of the assistant
MaxGenCycles == 2        \* assistant cycles that issue a POST
MaxGenRegs   == 2        \* /register requests in the runs of the assistant
MaxGenConvs  == 2        \* conversation objects created in the runs of the assistant

\* the register of call A1 on the IN port
GenQueries == {r \in RegQueries : r.uuid = "A1" /\ r.exten = "100" /\ r.dir = "in"
                                   /\ r.force = ""}

\* the assistant: one call, its session, final transcripts, the timer cycles
\* and their POSTs, and /unregister; the watchdog is in SwdNext
GenNext ==
  \/ \E q \in GenQueries : SgwRegister(q, MaxGenRegs)
  \/ SgwUnregister("A1")
  \/ \E k \in {x \in SgwPackets : x.ssrc = 7 /\ x.d.len = 340} : RtpMessage("in", k)
  \/ \E w \in 1..Len(sgwWs) : WsOpen(w)
  \/ \E w \in 1..Len(sgwWs), len \in TextLens :
        WsFinal(w, len, MaxGenItems) /\ Len(genConvs') <= MaxGenConvs
  \/ GenCycleStart(MaxGenCycles)
  \/ \E c \in 1..Len(genCycles), res \in PostAnswers, len \in TextLens :
        GenPostDone(c, res, len) /\ Len(genConvs') <= MaxGenConvs

SpecGen == InitOther /\ [][GenNext]_vars

(***************************************************************************)
(* C38: streaming gateway: after /unregister for a CallId the registration *)
(* context and the conversation of that CallId are absent, and the         *)
(* conversation is not created again for that call by any later step (a    *)
(* final transcript on a still-open session of the call, an assistant      *)
(* response to a POST in flight at unregister time) unless a new /register *)
(* for the CallId occurs; once the call has ended and its sessions are     *)
(* gone no conversation for it remains.                                    *)
(***************************************************************************)
C38_UnregisterDropsConversation ==
  /\ [][SgwUnregister("A1") => ~ctxByUuid'["A1"].has /\ ConvOf(genConvs', "A1") = 0]_vars
  /\ [][(~ctxByUuid["A1"].has /\ ~ctxByUuid'["A1"].has /\ ConvOf(genConvs, "A1") = 0)
          => ConvOf(genConvs', "A1") = 0]_vars

(***************************************************************************)
(* C39: generative assistant: a POST for a conversation is issued only     *)
(* when its total character count is at least the minimum threshold and    *)
(* its item count has grown since the last POST issued for it; no two      *)
(* POSTs are issued for the same conversation without a new item appended  *)
(* in between, also when a timer cycle starts while a previous cycle is    *)
(* still awaiting its response.                                            *)
(***************************************************************************)
C39_PostOnlyOnGrowth ==
  /\ [][\A i \in 1..Len(genConvs) :
          Len(genConvs'[i].posts) > Len(genConvs[i].posts)
            => genConvs'[i].totalChars >= GEN_ASS_MIN_CHARS]_vars
  /\ [](\A i \in 1..Len(genConvs) :
          \A k \in 2..Len(genConvs[i].posts) :
             genConvs[i].posts[k - 1] < genConvs[i].posts[k])

\* a POST for conversation object i is awaited
PostInFlight(i) == \E c \in 1..Len(genCycles) : genCycles[c].pc = "post" /\ genCycles[c].pos = i

(***************************************************************************)
(* C40: generative assistant: a final transcript appended to a             *)
(* conversation while a POST for it is in flight still counts as growth    *)
(* since the last send, so the next timer cycle after the POST completes   *)
(* samples the conversation again (given the character threshold holds);   *)
(* the last-sent count recorded for a POST never covers user/agent items   *)
(* that were not part of that POST's payload source.                       *)
(***************************************************************************)
C40_GrowthDuringPost ==
  /\ [][\A c \in 1..Len(genCycles) :
          (genCycles[c].pc = "post"
             /\ (genCycles'[c].pc # "post" \/ genCycles'[c].pos # genCycles[c].pos))
            => LET i == genCycles[c].pos
               IN \A k \in (genCycles[c].source + 1)..genConvs'[i].lastSentItems :
                     genConvs'[i].items[k].speaker = "assistant"]_vars
  /\ [](\A i \in 1..Len(genConvs) :
          (/\ genConvs[i].live
           /\ ~PostInFlight(i)
           /\ genConvs[i].posts # <<>>
           /\ genConvs[i].totalChars >= GEN_ASS_MIN_CHARS
           /\ \E k \in 1..Len(genConvs[i].items) :
                 /\ k > genConvs[i].posts[Len(genConvs[i].posts)]
                 /\ genConvs[i].items[k].speaker # "assistant")
            => genSampled(genConvs[i]))

====
